---- MODULE Spec2Model ----
(***************************************************************************)
(* Model of kcenon/python_database_system:                                 *)
(*   - database_module/pool/connection_pool.py   (ConnectionPool)          *)
(*   - database_module/query/query_builder.py    (QueryCondition,          *)
(*                                                 QueryBuilder)           *)
(* The pool is modelled at the granularity of the statements that touch    *)
(* shared state (each blocking point is the guard of its own action); the  *)
(* builder is modelled call by call, its serialization as operators over   *)
(* strings.                                                                *)
(***************************************************************************)
EXTENDS Integers, Sequences, FiniteSets, TLC

(***************************************************************************)
(* Bounds of the model.                                                    *)
(***************************************************************************)
\* client threads that use the pool concurrently
NumThreads == 2
\* largest max_connections a configuration is drawn with
MaxConn == 2
\* pool operations (acquire, release, get_stats) started in one behaviour
MaxCalls == 3

\* the thread that runs ConnectionPool.__init__
Ctor == 0
Threads == 1..NumThreads
\* one more caller: the one that holds the handle the others wait for
Owner == NumThreads + 1
AllThreads == {Ctor} \cup Threads \cup {Owner}

\* Python's None for a connection handle; handles are the numbers 1, 2, ...
None == 0
\* owner value of a threading.Lock nobody holds
Free == -1
\* an object that no factory call of this pool produced (release accepts any object)
Foreign == -2

VARIABLES
  config,             \* self._config: [min_connections, max_connections]
  available,          \* self._available: the Queue's items, head first
  in_use,             \* self._in_use: list
  lock,               \* self._lock: owner thread or Free
  stats_lock,         \* self._stats_lock: owner thread or Free
  total_connections,  \* self._total_connections
  stats,              \* self._stats: ConnectionStats
  pc,                 \* per thread: the statement it is about to execute
  conn,               \* per thread: local variable conn (argument of release)
  ret,                \* per thread: what its last completed call returned
  init_i,             \* __init__: iterations of the warm-up loop done
  next_handle,        \* identity of the next object the factory creates
  held,               \* history: handles each caller got from acquire and has not released
  misuse,             \* history: some release(h) was issued by a caller not holding h
  exh,                \* history: the thread's acquire began with every handle checked out, no release since
  calls,              \* history: operations started
  reuse,              \* history: handle released alone on a drained pool, and the next acquirer
  handoff             \* history: handle the owner queued, callers blocked then, acquire begun since

poolVars == <<config, available, in_use, lock, stats_lock, total_connections, stats,
              pc, conn, ret, init_i, next_handle, held, misuse, exh, calls, reuse,
              handoff>>

\* the query builder under test, and a second builder constructed at the last reset
\* that has received the same calls since
VARIABLES
  qb,                 \* the QueryBuilder object's fields
  fresh,              \* a QueryBuilder() constructed when qb was last reset
  was_reset,          \* history: qb.reset() has been called
  first_entry,        \* history: entry method called first since construction/reset
  last_entry,         \* history: entry method called last since construction/reset
  rows_added,         \* history: row mappings passed to values() since construction/reset
  sets_added,         \* history: assignments passed to set() since construction/reset
  dirty_reset,        \* history: qb held something when it was last reset
  result,             \* <<r>> when build() was the last call made and gave r, else <<>>
  builds,             \* history: build() calls made since the last other call
  fed,                \* history: per SELECT clause, what its method was last given
  where_hist,         \* history: texts of the conditions added since construction/reset
  joins_hist,         \* history: the join types passed to join() since construction/reset
  rows_hist,          \* history: the rows passed to values() since construction/reset
  qcalls,             \* history: builder calls made
  conds,              \* the QueryCondition objects made so far; object k is conds[k]
  cond_call,          \* the QueryCondition call made last, and the object it returned
  fmt                 \* a value and the text each of the two formatters gave for it

qbVars == <<qb, fresh, was_reset, dirty_reset, first_entry, last_entry, rows_added, sets_added,
            result, builds, fed, where_hist, joins_hist, rows_hist, qcalls, conds, cond_call, fmt>>

\* the process-wide DatabaseManager and the threads that use it
VARIABLES
  manager,            \* DatabaseManager class attributes and the instance's fields
  callers             \* per thread: where it is in its call, its locals, what it got

mgrVars == <<manager, callers>>

vars == <<poolVars, qbVars, mgrVars>>

\* ConnectionStats() as the dataclass defaults build it
ConnectionStats == [total_connections |-> 0, active_connections |-> 0,
                    available_connections |-> 0, failed_acquisitions |-> 0,
                    successful_acquisitions |-> 0]

\* what a thread's last call returned: op is "acquire", "release" or "get_stats", or
\* "none" when no call has completed or a new call has begun
NoRet == [op |-> "none", conn |-> None, snap |-> ConnectionStats]

\* the outcomes of one call of the injected factory
FactoryOutcomes == {"handle", "none", "raise"}

\* Queue(maxsize): maxsize <= 0 is an unbounded queue
QueueFull == config.max_connections > 0 /\ Len(available) >= config.max_connections

\* list.remove(x): drops the first occurrence
RECURSIVE ListRemove(_, _)
ListRemove(s, x) ==
  IF s = <<>> THEN <<>>
  ELSE IF Head(s) = x THEN Tail(s)
  ELSE <<Head(s)>> \o ListRemove(Tail(s), x)

\* x in list
InList(s, x) == \E i \in 1..Len(s) : s[i] = x

\* the fields __init__ assigns before the warm-up loop
\* no release on a drained pool is being followed
NoReuse == [h |-> None, by |-> None]
NoHandoff == [h |-> None, waiting |-> {}, late |-> FALSE]

\* no caller is inside a call
AllIdle == \A u \in Threads : pc[u] = "idle"

PoolInit ==
  /\ config \in {c \in [min_connections : 0..MaxConn, max_connections : 0..MaxConn] :
                   c.min_connections <= c.max_connections}
  /\ available = <<>>
  /\ in_use = <<>>
  /\ lock = Free
  /\ stats_lock = Free
  /\ total_connections = 0
  /\ stats = ConnectionStats
  /\ pc = [t \in AllThreads |-> IF t = Ctor THEN "init_loop" ELSE "idle"]
  /\ conn = [t \in AllThreads |-> None]
  /\ ret = [t \in AllThreads |-> NoRet]
  /\ init_i = 0
  /\ next_handle = 1
  /\ held = [t \in AllThreads |-> {}]
  /\ misuse = FALSE
  /\ exh = [t \in AllThreads |-> FALSE]
  /\ calls = 0
  /\ reuse = NoReuse
  /\ handoff = NoHandoff

\* the constructor has returned: the pool is visible to the client threads
Published == pc[Ctor] = "init_done"

(***************************************************************************)
(* ConnectionPool.__init__: the warm-up loop                               *)
(***************************************************************************)
\* for _ in range(config.min_connections): conn = self._create_new_connection()
InitLoop ==
  /\ pc[Ctor] = "init_loop"
  /\ pc' = [pc EXCEPT ![Ctor] = IF init_i < config.min_connections
                                 THEN "c_factory" ELSE "init_done"]
  /\ UNCHANGED <<qbVars, mgrVars, reuse, handoff, config, available, in_use, lock, stats_lock, total_connections, stats,
                 conn, ret, init_i, next_handle, held, misuse, exh, calls>>

\* a plausible slip: the warm-up handle is appended to the in-use list
InitPutInUse ==
  /\ pc[Ctor] = "init_put"
  /\ IF conn[Ctor] # None
     THEN in_use' = Append(in_use, conn[Ctor])
     ELSE in_use' = in_use
  /\ init_i' = init_i + 1
  /\ pc' = [pc EXCEPT ![Ctor] = "init_loop"]
  /\ UNCHANGED <<qbVars, mgrVars, reuse, handoff, config, available, lock, stats_lock, total_connections, stats,
                 conn, ret, next_handle, held, misuse, exh, calls>>

\* if conn: self._available.put(conn)    (put blocks while the queue is full)
InitPut ==
  /\ pc[Ctor] = "init_put"
  /\ IF conn[Ctor] # None
     THEN ~QueueFull /\ available' = Append(available, conn[Ctor])
     ELSE available' = available
  /\ init_i' = init_i + 1
  /\ pc' = [pc EXCEPT ![Ctor] = "init_loop"]
  /\ UNCHANGED <<qbVars, mgrVars, reuse, handoff, config, in_use, lock, stats_lock, total_connections, stats,
                 conn, ret, next_handle, held, misuse, exh, calls>>

(***************************************************************************)
(* ConnectionPool._create_new_connection                                   *)
(***************************************************************************)
\* where _create_new_connection returns to
ReturnPoint(t) == IF t = Ctor THEN "init_put" ELSE "a_after_create"

\* conn = self._create_connection(); an exception is caught and None returned
CreateConnection(t) ==
  /\ pc[t] = "c_factory"
  /\ \E outcome \in FactoryOutcomes :
       \/ /\ outcome = "handle"
          /\ conn' = [conn EXCEPT ![t] = next_handle]
          /\ next_handle' = next_handle + 1
          /\ pc' = [pc EXCEPT ![t] = "c_lock"]
       \/ /\ outcome = "none"
          /\ conn' = [conn EXCEPT ![t] = None]
          /\ next_handle' = next_handle
          /\ pc' = [pc EXCEPT ![t] = "c_lock"]
       \/ /\ outcome = "raise"
          /\ conn' = [conn EXCEPT ![t] = None]
          /\ next_handle' = next_handle
          /\ pc' = [pc EXCEPT ![t] = ReturnPoint(t)]
  /\ UNCHANGED <<qbVars, mgrVars, reuse, handoff, config, available, in_use, lock, stats_lock, total_connections, stats,
                 ret, init_i, held, misuse, exh, calls>>

\* with self._lock: self._total_connections += 1; return conn
\* threading.Lock is not reentrant: the guard is false for the thread that holds it
CreateLock(t) ==
  /\ pc[t] = "c_lock"
  /\ lock = Free
  /\ total_connections' = total_connections + 1
  /\ pc' = [pc EXCEPT ![t] = ReturnPoint(t)]
  /\ UNCHANGED <<qbVars, mgrVars, reuse, handoff, config, available, in_use, lock, stats_lock, stats,
                 conn, ret, init_i, next_handle, held, misuse, exh, calls>>

(***************************************************************************)
(* ConnectionPool.acquire                                                  *)
(***************************************************************************)
\* every handle the pool tracks is checked out: total == max, nothing available
AllCheckedOut ==
  /\ total_connections = config.max_connections
  /\ available = <<>>
  /\ Len(in_use) = config.max_connections

\* the call: timeout = timeout or self._config.acquire_timeout_seconds
AcquireStart(t) ==
  /\ pc[t] = "idle"
  /\ Published
  /\ calls < MaxCalls
  /\ calls' = calls + 1
  /\ pc' = [pc EXCEPT ![t] = "a_get"]
  /\ conn' = [conn EXCEPT ![t] = None]
  /\ ret' = [ret EXCEPT ![t] = NoRet]
  /\ exh' = [exh EXCEPT ![t] = AllCheckedOut /\ \A u \in Threads : pc[u] \notin {"r_lock", "r_put"}]
  /\ handoff' = IF handoff.h # None THEN [handoff EXCEPT !.late = TRUE] ELSE handoff
  /\ reuse' = IF reuse.h # None /\ reuse.by = None /\ AllIdle
              THEN [reuse EXCEPT !.by = t] ELSE NoReuse
  /\ UNCHANGED <<qbVars, mgrVars, config, available, in_use, lock, stats_lock, total_connections, stats,
                 init_i, next_handle, held, misuse>>

\* a plausible slip: the timeout can end the wait although an item has arrived
AcquireGetGivesUp(t) ==
  /\ pc[t] = "a_get"
  /\ \/ /\ available # <<>>
        /\ conn' = [conn EXCEPT ![t] = Head(available)]
        /\ available' = Tail(available)
        /\ pc' = [pc EXCEPT ![t] = "a_append"]
     \/ /\ conn' = conn
        /\ available' = available
        /\ pc' = [pc EXCEPT ![t] = "a_lock2"]
  /\ UNCHANGED <<qbVars, mgrVars, reuse, handoff, config, in_use, lock, stats_lock, total_connections,
                 stats, ret, init_i, next_handle, held, misuse, exh, calls>>

\* a plausible slip: the item is read from the queue and left in it
AcquireGetPeek(t) ==
  /\ pc[t] = "a_get"
  /\ IF available # <<>>
     THEN /\ conn' = [conn EXCEPT ![t] = Head(available)]
          /\ pc' = [pc EXCEPT ![t] = "a_append"]
     ELSE /\ conn' = conn
          /\ pc' = [pc EXCEPT ![t] = "a_lock2"]
  /\ UNCHANGED <<qbVars, mgrVars, reuse, handoff, config, available, in_use, lock, stats_lock, total_connections, stats,
                 ret, init_i, next_handle, held, misuse, exh, calls>>

\* conn = self._available.get(timeout=timeout): an item if there is one; Empty is
\* raised only when the timeout ends with the queue still empty
AcquireGet(t) ==
  /\ pc[t] = "a_get"
  /\ IF available # <<>>
     THEN /\ conn' = [conn EXCEPT ![t] = Head(available)]
          /\ available' = Tail(available)
          /\ pc' = [pc EXCEPT ![t] = "a_append"]
     ELSE /\ conn' = conn
          /\ available' = available
          /\ pc' = [pc EXCEPT ![t] = "a_lock2"]
  /\ UNCHANGED <<qbVars, mgrVars, reuse, handoff, config, in_use, lock, stats_lock, total_connections, stats,
                 ret, init_i, next_handle, held, misuse, exh, calls>>

\* with self._lock: self._in_use.append(conn)
AcquireAppend(t) ==
  /\ pc[t] = "a_append"
  /\ lock = Free
  /\ in_use' = Append(in_use, conn[t])
  /\ pc' = [pc EXCEPT ![t] = "a_stats"]
  /\ UNCHANGED <<qbVars, mgrVars, reuse, handoff, config, available, lock, stats_lock, total_connections, stats,
                 conn, ret, init_i, next_handle, held, misuse, exh, calls>>

\* a plausible slip: the successful return refreshes the gauges and counts nothing
AcquireStatsUncounted(t) ==
  /\ pc[t] = "a_stats"
  /\ stats_lock = Free
  /\ stats' = [stats EXCEPT !.active_connections = Len(in_use),
                            !.available_connections = Len(available)]
  /\ lock' = IF lock = t THEN Free ELSE lock
  /\ ret' = [ret EXCEPT ![t] = [op |-> "acquire", conn |-> conn[t], snap |-> ConnectionStats]]
  /\ held' = [held EXCEPT ![t] = @ \cup {conn[t]}]
  /\ conn' = [conn EXCEPT ![t] = None]
  /\ pc' = [pc EXCEPT ![t] = "idle"]
  /\ UNCHANGED <<qbVars, mgrVars, reuse, handoff, config, available, in_use, stats_lock, total_connections,
                 init_i, next_handle, misuse, exh, calls>>

\* with self._stats_lock: successful_acquisitions += 1; refresh active/available;
\* return conn (leaving the with self._lock block of the creation path, if inside it)
AcquireStats(t) ==
  /\ pc[t] = "a_stats"
  /\ stats_lock = Free
  /\ stats' = [stats EXCEPT !.successful_acquisitions = @ + 1,
                            !.active_connections = Len(in_use),
                            !.available_connections = Len(available)]
  /\ lock' = IF lock = t THEN Free ELSE lock
  /\ ret' = [ret EXCEPT ![t] = [op |-> "acquire", conn |-> conn[t], snap |-> ConnectionStats]]
  /\ held' = [held EXCEPT ![t] = @ \cup {conn[t]}]
  /\ conn' = [conn EXCEPT ![t] = None]
  /\ pc' = [pc EXCEPT ![t] = "idle"]
  /\ UNCHANGED <<qbVars, mgrVars, reuse, handoff, config, available, in_use, stats_lock, total_connections,
                 init_i, next_handle, misuse, exh, calls>>

\* except Empty: with self._lock: if self._total_connections < max_connections:
AcquireLock2(t) ==
  /\ pc[t] = "a_lock2"
  /\ lock = Free
  /\ IF total_connections < config.max_connections
     THEN /\ lock' = t
          /\ pc' = [pc EXCEPT ![t] = "c_factory"]
     ELSE /\ lock' = lock
          /\ pc' = [pc EXCEPT ![t] = "a_fail"]
  /\ UNCHANGED <<qbVars, mgrVars, reuse, handoff, config, available, in_use, stats_lock, total_connections, stats,
                 conn, ret, init_i, next_handle, held, misuse, exh, calls>>

\* a plausible slip: a failed creation gives back a unit of the total
AcquireAfterCreateRollsBack(t) ==
  /\ pc[t] = "a_after_create"
  /\ IF conn[t] # None
     THEN /\ in_use' = Append(in_use, conn[t])
          /\ total_connections' = total_connections
          /\ lock' = lock
          /\ pc' = [pc EXCEPT ![t] = "a_stats"]
     ELSE /\ in_use' = in_use
          /\ total_connections' = total_connections - 1
          /\ lock' = Free
          /\ pc' = [pc EXCEPT ![t] = "a_fail"]
  /\ UNCHANGED <<qbVars, mgrVars, reuse, handoff, config, available, stats_lock, stats,
                 conn, ret, init_i, next_handle, held, misuse, exh, calls>>

\* conn = self._create_new_connection() has returned; if conn: self._in_use.append(conn)
\* else the with self._lock block is left
AcquireAfterCreate(t) ==
  /\ pc[t] = "a_after_create"
  /\ IF conn[t] # None
     THEN /\ in_use' = Append(in_use, conn[t])
          /\ lock' = lock
          /\ pc' = [pc EXCEPT ![t] = "a_stats"]
     ELSE /\ in_use' = in_use
          /\ lock' = Free
          /\ pc' = [pc EXCEPT ![t] = "a_fail"]
  /\ UNCHANGED <<qbVars, mgrVars, reuse, handoff, config, available, stats_lock, total_connections, stats,
                 conn, ret, init_i, next_handle, held, misuse, exh, calls>>

\* a plausible slip: the failure path counts nothing
AcquireFailUncounted(t) ==
  /\ pc[t] = "a_fail"
  /\ stats_lock = Free
  /\ ret' = [ret EXCEPT ![t] = [op |-> "acquire", conn |-> None, snap |-> ConnectionStats]]
  /\ pc' = [pc EXCEPT ![t] = "idle"]
  /\ UNCHANGED <<qbVars, mgrVars, reuse, handoff, config, available, in_use, lock, stats_lock, total_connections, stats,
                 conn, init_i, next_handle, held, misuse, exh, calls>>

\* with self._stats_lock: self._stats.failed_acquisitions += 1; return None
AcquireFail(t) ==
  /\ pc[t] = "a_fail"
  /\ stats_lock = Free
  /\ stats' = [stats EXCEPT !.failed_acquisitions = @ + 1]
  /\ ret' = [ret EXCEPT ![t] = [op |-> "acquire", conn |-> None, snap |-> ConnectionStats]]
  /\ pc' = [pc EXCEPT ![t] = "idle"]
  /\ UNCHANGED <<qbVars, mgrVars, reuse, handoff, config, available, in_use, lock, stats_lock, total_connections,
                 conn, init_i, next_handle, held, misuse, exh, calls>>

(***************************************************************************)
(* ConnectionPool.release                                                  *)
(***************************************************************************)
\* the call release(h), h any handle the factory has produced
ReleaseStart(t) ==
  /\ pc[t] = "idle"
  /\ Published
  /\ calls < MaxCalls
  /\ \E h \in (1..(next_handle - 1)) \cup {Foreign} :
       /\ conn' = [conn EXCEPT ![t] = h]
       /\ misuse' = (misuse \/ h \notin held[t])
       /\ held' = [held EXCEPT ![t] = @ \ {h}]
       /\ reuse' = IF /\ available = <<>>
                      /\ total_connections = config.max_connections
                      /\ InList(in_use, h)
                      /\ AllIdle
                   THEN [h |-> h, by |-> None] ELSE NoReuse
  /\ calls' = calls + 1
  /\ ret' = [ret EXCEPT ![t] = NoRet]
  /\ exh' = [u \in AllThreads |-> FALSE]
  /\ pc' = [pc EXCEPT ![t] = "r_lock"]
  /\ UNCHANGED <<qbVars, mgrVars, handoff, config, available, in_use, lock, stats_lock, total_connections, stats,
                 init_i, next_handle>>

\* a plausible slip: the handle is put back but stays in the in-use list
ReleaseLockKeeps(t) ==
  /\ pc[t] = "r_lock"
  /\ lock = Free
  /\ IF InList(in_use, conn[t])
     THEN /\ lock' = t
          /\ pc' = [pc EXCEPT ![t] = "r_put"]
          /\ ret' = ret
          /\ conn' = conn
     ELSE /\ lock' = lock
          /\ pc' = [pc EXCEPT ![t] = "idle"]
          /\ conn' = [conn EXCEPT ![t] = None]
          /\ ret' = [ret EXCEPT ![t] = [op |-> "release", conn |-> None, snap |-> ConnectionStats]]
  /\ UNCHANGED <<qbVars, mgrVars, reuse, handoff, config, available, in_use, stats_lock, total_connections, stats,
                 init_i, next_handle, held, misuse, exh, calls>>

\* a plausible slip: the put is outside the membership test
ReleaseLockPutsAnyway(t) ==
  /\ pc[t] = "r_lock"
  /\ lock = Free
  /\ IF InList(in_use, conn[t])
     THEN /\ in_use' = ListRemove(in_use, conn[t])
          /\ available' = available
          /\ lock' = t
          /\ pc' = [pc EXCEPT ![t] = "r_put"]
          /\ ret' = ret
          /\ conn' = conn
     ELSE /\ in_use' = in_use
          /\ available' = Append(available, conn[t])
          /\ lock' = lock
          /\ pc' = [pc EXCEPT ![t] = "idle"]
          /\ conn' = [conn EXCEPT ![t] = None]
          /\ ret' = [ret EXCEPT ![t] = [op |-> "release", conn |-> None, snap |-> ConnectionStats]]
  /\ UNCHANGED <<qbVars, mgrVars, reuse, handoff, config, stats_lock, total_connections, stats,
                 init_i, next_handle, held, misuse, exh, calls>>

\* with self._lock: if conn in self._in_use: self._in_use.remove(conn)
ReleaseLock(t) ==
  /\ pc[t] = "r_lock"
  /\ lock = Free
  /\ IF InList(in_use, conn[t])
     THEN /\ in_use' = ListRemove(in_use, conn[t])
          /\ lock' = t
          /\ pc' = [pc EXCEPT ![t] = "r_put"]
          /\ ret' = ret
          /\ conn' = conn
     ELSE /\ in_use' = in_use
          /\ lock' = lock
          /\ pc' = [pc EXCEPT ![t] = "idle"]
          /\ conn' = [conn EXCEPT ![t] = None]
          /\ ret' = [ret EXCEPT ![t] = [op |-> "release", conn |-> None, snap |-> ConnectionStats]]
  /\ UNCHANGED <<qbVars, mgrVars, reuse, handoff, config, available, stats_lock, total_connections, stats,
                 init_i, next_handle, held, misuse, exh, calls>>

\* a plausible slip: the handle leaves the in-use list and is not queued
ReleasePutDrops(t) ==
  /\ pc[t] = "r_put"
  /\ lock' = Free
  /\ ret' = [ret EXCEPT ![t] = [op |-> "release", conn |-> None, snap |-> ConnectionStats]]
  /\ conn' = [conn EXCEPT ![t] = None]
  /\ pc' = [pc EXCEPT ![t] = "idle"]
  /\ UNCHANGED <<qbVars, mgrVars, reuse, handoff, config, available, in_use, stats_lock, total_connections,
                 stats, init_i, next_handle, held, misuse, exh, calls>>

\* self._available.put(conn) (blocks while the queue is full), then the lock is left
ReleasePut(t) ==
  /\ pc[t] = "r_put"
  /\ ~QueueFull
  /\ available' = Append(available, conn[t])
  /\ handoff' = IF t = Owner
                THEN [h |-> conn[t],
                      waiting |-> IF available = <<>>
                                  THEN {u \in Threads : pc[u] = "a_get"} ELSE {},
                      late |-> FALSE]
                ELSE handoff
  /\ lock' = Free
  /\ ret' = [ret EXCEPT ![t] = [op |-> "release", conn |-> None, snap |-> ConnectionStats]]
  /\ conn' = [conn EXCEPT ![t] = None]
  /\ pc' = [pc EXCEPT ![t] = "idle"]
  /\ UNCHANGED <<qbVars, mgrVars, reuse, config, in_use, stats_lock, total_connections, stats,
                 init_i, next_handle, held, misuse, exh, calls>>

(***************************************************************************)
(* ConnectionPool.size, available_count, in_use_count                      *)
(***************************************************************************)
\* return self._total_connections
size == total_connections
\* return self._available.qsize()
available_count == Len(available)
\* with self._lock: return len(self._in_use)
in_use_count == Len(in_use)

(***************************************************************************)
(* ConnectionPool.get_stats: the pool lock is not taken, each read is its  *)
(* own statement                                                           *)
(***************************************************************************)
GetStatsStart(t) ==
  /\ pc[t] = "idle"
  /\ Published
  /\ calls < MaxCalls
  /\ calls' = calls + 1
  /\ ret' = [ret EXCEPT ![t] = NoRet]
  /\ pc' = [pc EXCEPT ![t] = "g_lock"]
  /\ reuse' = NoReuse
  /\ UNCHANGED <<qbVars, mgrVars, handoff, config, available, in_use, lock, stats_lock, total_connections, stats,
                 conn, init_i, next_handle, held, misuse, exh>>

\* with self._stats_lock: self._stats.total_connections = self._total_connections
GetStatsTotal(t) ==
  /\ pc[t] = "g_lock"
  /\ stats_lock = Free
  /\ stats_lock' = t
  /\ stats' = [stats EXCEPT !.total_connections = total_connections]
  /\ pc' = [pc EXCEPT ![t] = "g_active"]
  /\ UNCHANGED <<qbVars, mgrVars, reuse, handoff, config, available, in_use, lock, total_connections,
                 conn, ret, init_i, next_handle, held, misuse, exh, calls>>

\* self._stats.active_connections = len(self._in_use)
GetStatsActive(t) ==
  /\ pc[t] = "g_active"
  /\ stats' = [stats EXCEPT !.active_connections = Len(in_use)]
  /\ pc' = [pc EXCEPT ![t] = "g_avail"]
  /\ UNCHANGED <<qbVars, mgrVars, reuse, handoff, config, available, in_use, lock, stats_lock, total_connections,
                 conn, ret, init_i, next_handle, held, misuse, exh, calls>>

\* self._stats.available_connections = self._available.qsize()
GetStatsAvailable(t) ==
  /\ pc[t] = "g_avail"
  /\ stats' = [stats EXCEPT !.available_connections = Len(available)]
  /\ pc' = [pc EXCEPT ![t] = "g_ret"]
  /\ UNCHANGED <<qbVars, mgrVars, reuse, handoff, config, available, in_use, lock, stats_lock, total_connections,
                 conn, ret, init_i, next_handle, held, misuse, exh, calls>>

\* return ConnectionStats(<copy of the fields>); the stats lock is left
GetStatsReturn(t) ==
  /\ pc[t] = "g_ret"
  /\ ret' = [ret EXCEPT ![t] = [op |-> "get_stats", conn |-> None, snap |-> stats]]
  /\ stats_lock' = Free
  /\ pc' = [pc EXCEPT ![t] = "idle"]
  /\ UNCHANGED <<qbVars, mgrVars, reuse, handoff, config, available, in_use, lock, total_connections, stats,
                 conn, init_i, next_handle, held, misuse, exh, calls>>

(***************************************************************************)
(* database_manager.py: DatabaseManager, the singleton and its pools       *)
(***************************************************************************)
\* DatabaseManager()/handle(), create_connection_pool and get_connection_pool
\* calls started in one behaviour
MaxMgrCalls == 3

\* the database types pools are made for
DbTypes == {"POSTGRES", "MYSQL"}

\* no attribute of that name on the instance yet
Unset == <<>>

\* the class attributes _instance and _lock, the instance's _initialized,
\* _connection_pools (0: no entry) and _pool_lock (the lock object, numbered; 0:
\* no attribute yet), with the history of the pools create_connection_pool
\* reported as created, of the runs of the body of __init__ and of the calls
ManagerInit ==
  /\ manager = [instance |-> None, class_lock |-> Free, initialized |-> Unset,
                connection_pools |-> [d \in DbTypes |-> None], pool_lock |-> 0,
                next_pool |-> 1, registered |-> {}, inits |-> 0, calls |-> 0]
  /\ callers = [t \in Threads |->
                  [pc |-> "idle", inst |-> None, lk |-> 0, holds |-> 0,
                   db_type |-> "POSTGRES", ret |-> "none"]]

MgrFrame == UNCHANGED <<poolVars, qbVars>>

\* thread t moves to statement p
Goto(t, p) == [callers EXCEPT ![t].pc = p]

\* DatabaseManager() or DatabaseManager.handle()
HandleStart(t) ==
  /\ callers[t].pc = "idle"
  /\ manager.calls < MaxMgrCalls
  /\ manager' = [manager EXCEPT !.calls = @ + 1]
  /\ callers' = [callers EXCEPT ![t].pc = "new_check", ![t].ret = "none"]
  /\ MgrFrame

\* __new__: if cls._instance is None     (read without the class lock)
NewCheck(t) ==
  /\ callers[t].pc = "new_check"
  /\ callers' = Goto(t, IF manager.instance = None THEN "new_lock" ELSE "init_check")
  /\ UNCHANGED manager
  /\ MgrFrame

\* with cls._lock:
NewLock(t) ==
  /\ callers[t].pc = "new_lock"
  /\ manager.class_lock = Free
  /\ manager' = [manager EXCEPT !.class_lock = t]
  /\ callers' = Goto(t, "new_create")
  /\ MgrFrame

\* if cls._instance is None: cls._instance = super().__new__(cls)
NewCreate(t) ==
  /\ callers[t].pc = "new_create"
  /\ IF manager.instance = None
     THEN /\ manager' = [manager EXCEPT !.instance = 1]
          /\ callers' = Goto(t, "new_flag")
     ELSE /\ manager' = [manager EXCEPT !.class_lock = Free]
          /\ callers' = Goto(t, "init_check")
  /\ MgrFrame

\* cls._instance._initialized = False; the class lock is left
NewFlag(t) ==
  /\ callers[t].pc = "new_flag"
  /\ manager' = [manager EXCEPT !.initialized = <<FALSE>>, !.class_lock = Free]
  /\ callers' = Goto(t, "init_check")
  /\ MgrFrame

\* __init__: if self._initialized: return     (AttributeError while the attribute
\* is not there yet)
InitCheck(t) ==
  /\ callers[t].pc = "init_check"
  /\ IF manager.initialized = Unset
     THEN callers' = [callers EXCEPT ![t].pc = "idle", ![t].ret = "AttributeError"]
     ELSE IF manager.initialized[1]
     THEN callers' = [callers EXCEPT ![t].pc = "idle", ![t].inst = manager.instance,
                                     ![t].ret = "instance"]
     ELSE callers' = Goto(t, "init_fields")
  /\ UNCHANGED manager
  /\ MgrFrame

\* self._database = None ... self._connection_pools = {}
InitFields(t) ==
  /\ callers[t].pc = "init_fields"
  /\ manager' = [manager EXCEPT !.connection_pools = [d \in DbTypes |-> None],
                                !.inits = @ + 1]
  /\ callers' = Goto(t, "init_lock")
  /\ MgrFrame

\* self._pool_lock = threading.Lock(): a new lock object
InitPoolLock(t) ==
  /\ callers[t].pc = "init_lock"
  /\ manager' = [manager EXCEPT !.pool_lock = @ + 1]
  /\ callers' = Goto(t, "init_flag")
  /\ MgrFrame

\* self._initialized = True; the constructor call hands back the instance
InitFlag(t) ==
  /\ callers[t].pc = "init_flag"
  /\ manager' = [manager EXCEPT !.initialized = <<TRUE>>]
  /\ callers' = [callers EXCEPT ![t].pc = "idle", ![t].inst = manager.instance,
                                ![t].ret = "instance"]
  /\ MgrFrame

\* manager.create_connection_pool(db_type, config), on the instance the thread got
CreatePoolStart(t, db_type) ==
  /\ callers[t].pc = "idle"
  /\ callers[t].inst # None
  /\ manager.calls < MaxMgrCalls
  /\ manager' = [manager EXCEPT !.calls = @ + 1]
  /\ callers' = [callers EXCEPT ![t].pc = "cp_read", ![t].db_type = db_type,
                                ![t].ret = "none"]
  /\ MgrFrame

\* manager.get_connection_pool(db_type)
GetPoolStart(t, db_type) ==
  /\ callers[t].pc = "idle"
  /\ callers[t].inst # None
  /\ manager.calls < MaxMgrCalls
  /\ manager' = [manager EXCEPT !.calls = @ + 1]
  /\ callers' = [callers EXCEPT ![t].pc = "gp_read", ![t].db_type = db_type,
                                ![t].ret = "none"]
  /\ MgrFrame

\* with self._pool_lock: the attribute is read, giving the lock object ...
PoolLockRead(t) ==
  /\ callers[t].pc \in {"cp_read", "gp_read"}
  /\ callers' = [callers EXCEPT ![t].lk = manager.pool_lock,
                                ![t].pc = IF @ = "cp_read" THEN "cp_acquire" ELSE "gp_acquire"]
  /\ UNCHANGED manager
  /\ MgrFrame

\* ... and that object is acquired, once no thread holds it
PoolLockAcquire(t) ==
  /\ callers[t].pc \in {"cp_acquire", "gp_acquire"}
  /\ \A u \in Threads : callers[u].holds # callers[t].lk
  /\ callers' = [callers EXCEPT ![t].holds = callers[t].lk,
                                ![t].pc = IF @ = "cp_acquire" THEN "cp_check" ELSE "gp_body"]
  /\ UNCHANGED manager
  /\ MgrFrame

\* if db_type in self._connection_pools: return False
CreatePoolCheck(t) ==
  /\ callers[t].pc = "cp_check"
  /\ IF manager.connection_pools[callers[t].db_type] # None
     THEN callers' = [callers EXCEPT ![t].pc = "idle", ![t].holds = 0, ![t].ret = "False"]
     ELSE callers' = Goto(t, "cp_store")
  /\ UNCHANGED manager
  /\ MgrFrame

\* pool = ConnectionPool(config, create_connection);
\* self._connection_pools[db_type] = pool; return True
CreatePoolStore(t) ==
  /\ callers[t].pc = "cp_store"
  /\ manager' = [manager EXCEPT !.connection_pools[callers[t].db_type] = manager.next_pool,
                                !.next_pool = @ + 1,
                                !.registered = @ \cup {<<callers[t].db_type, manager.next_pool>>}]
  /\ callers' = [callers EXCEPT ![t].pc = "idle", ![t].holds = 0, ![t].ret = "True"]
  /\ MgrFrame

\* return self._connection_pools.get(db_type)
GetPoolBody(t) ==
  /\ callers[t].pc = "gp_body"
  /\ callers' = [callers EXCEPT ![t].pc = "idle", ![t].holds = 0,
                                ![t].ret = IF manager.connection_pools[callers[t].db_type] = None
                                           THEN "no pool" ELSE "pool"]
  /\ UNCHANGED manager
  /\ MgrFrame

(***************************************************************************)
(* query_builder.py: values, conditions, the builder                       *)
(***************************************************************************)
\* builder calls (build excluded) made in one behaviour
MaxQCalls == 3
\* build() calls made one after the other
MaxBuilds == 2

\* Optional[x]: <<>> is None, <<x>> is x
Some(x) == <<x>>
\* f"{x}" of an Optional[str]
Str(o) == IF o = <<>> THEN "None" ELSE o[1]
\* truth value of an Optional[str]: None and "" are false
Truthy(o) == o # <<>> /\ o[1] # ""

\* DatabaseValue = Union[str, int, float, bool, None]
VNone == [t |-> "none"]
VStr(s) == [t |-> "str", s |-> s]
VBool(b) == [t |-> "bool", b |-> b]
VInt(i) == [t |-> "int", i |-> i]

\* sep.join(parts)
RECURSIVE StrJoin(_, _)
StrJoin(parts, sep) ==
  IF parts = <<>> THEN ""
  ELSE IF Len(parts) = 1 THEN parts[1]
  ELSE parts[1] \o sep \o StrJoin(Tail(parts), sep)

\* value.replace("'", "''")
RECURSIVE EscapeQuotes(_)
EscapeQuotes(s) ==
  IF s = "" THEN ""
  ELSE (IF Head(s) = "'" THEN "''" ELSE Head(s)) \o EscapeQuotes(Tail(s))

\* a plausible slip: the text is quoted as it is
format_value_unescaped(value) ==
  IF value.t = "none" THEN "NULL"
  ELSE IF value.t = "str" THEN "'" \o value.s \o "'"
  ELSE IF value.t = "bool" THEN (IF value.b THEN "TRUE" ELSE "FALSE")
  ELSE ToString(value.i)

\* QueryBuilder._format_value
format_value(value) ==
  IF value.t = "none" THEN "NULL"
  ELSE IF value.t = "str" THEN "'" \o EscapeQuotes(value.s) \o "'"
  ELSE IF value.t = "bool" THEN (IF value.b THEN "TRUE" ELSE "FALSE")
  ELSE ToString(value.i)

\* QueryCondition.__init__
QueryCondition(field, operator, value, raw_condition) ==
  [field |-> field, operator |-> operator, value |-> value,
   raw_condition |-> raw_condition, sub_conditions |-> <<>>,
   logical_operator |-> <<>>]

\* QueryCondition.__and__
cond_and(self, other) ==
  [QueryCondition(<<>>, <<>>, VNone, <<>>) EXCEPT
     !.sub_conditions = <<self, other>>, !.logical_operator = Some("AND")]

\* QueryCondition.__or__
cond_or(self, other) ==
  [QueryCondition(<<>>, <<>>, VNone, <<>>) EXCEPT
     !.sub_conditions = <<self, other>>, !.logical_operator = Some("OR")]

\* a plausible slip: a combination is written without its parentheses
RECURSIVE to_sql_bare(_)
to_sql_bare(self) ==
  IF Truthy(self.raw_condition) THEN self.raw_condition[1]
  ELSE IF self.sub_conditions # <<>>
  THEN StrJoin([i \in 1..Len(self.sub_conditions) |-> to_sql_bare(self.sub_conditions[i])],
               " " \o Str(self.logical_operator) \o " ")
  ELSE LET formatted_value ==
             IF self.value.t = "none" THEN "NULL"
             ELSE IF self.value.t = "str" THEN "'" \o EscapeQuotes(self.value.s) \o "'"
             ELSE IF self.value.t = "bool" THEN (IF self.value.b THEN "TRUE" ELSE "FALSE")
             ELSE ToString(self.value.i)
       IN Str(self.field) \o " " \o Str(self.operator) \o " " \o formatted_value

\* QueryCondition.to_sql
RECURSIVE to_sql(_)
to_sql(self) ==
  IF Truthy(self.raw_condition) THEN self.raw_condition[1]
  ELSE IF self.sub_conditions # <<>>
  THEN "(" \o StrJoin([i \in 1..Len(self.sub_conditions) |-> to_sql(self.sub_conditions[i])],
                      " " \o Str(self.logical_operator) \o " ") \o ")"
  ELSE LET formatted_value ==
             IF self.value.t = "none" THEN "NULL"
             ELSE IF self.value.t = "str" THEN "'" \o EscapeQuotes(self.value.s) \o "'"
             ELSE IF self.value.t = "bool" THEN (IF self.value.b THEN "TRUE" ELSE "FALSE")
             ELSE ToString(self.value.i)
       IN Str(self.field) \o " " \o Str(self.operator) \o " " \o formatted_value

\* dict: the items in insertion order, <<key, value>> each, keys unique
DictKeys(d) == [i \in 1..Len(d) |-> d[i][1]]
DictHas(d, k) == \E i \in 1..Len(d) : d[i][1] = k
\* d.get(k): None when the key is missing
DictGet(d, k) ==
  IF DictHas(d, k) THEN d[CHOOSE i \in 1..Len(d) : d[i][1] = k][2] ELSE VNone
\* d[k] = v: an existing key keeps its position
DictSet(d, k, v) ==
  IF DictHas(d, k) THEN [i \in 1..Len(d) |-> IF d[i][1] = k THEN <<k, v>> ELSE d[i]]
  ELSE Append(d, <<k, v>>)
\* d.update(other)
RECURSIVE DictUpdate(_, _)
DictUpdate(d, other) ==
  IF other = <<>> THEN d
  ELSE DictUpdate(DictSet(d, other[1][1], other[1][2]), Tail(other))

\* QueryBuilder.__init__
QueryBuilderNew ==
  [query_type |-> <<>>, select_columns |-> <<>>, from_table |-> <<>>,
   where_conditions |-> <<>>, joins |-> <<>>, group_by_columns |-> <<>>,
   having_clause |-> <<>>, order_by_clauses |-> <<>>, limit_count |-> <<>>,
   offset_count |-> <<>>, target_table |-> <<>>, set_data |-> <<>>,
   insert_rows |-> <<>>]

\* an argument that is Union[str, List[...]] or Union[dict, List[dict]]: [one |-> x]
\* is the single value, [many |-> <<...>>] the list
IsOne(arg) == "one" \in DOMAIN arg
AsList(arg) == IF IsOne(arg) THEN <<arg.one>> ELSE arg.many

\* QueryBuilder.select
select(self, columns) ==
  [self EXCEPT !.query_type = Some("SELECT"),
               !.select_columns = @ \o AsList(columns)]

\* QueryBuilder.from_table
from_table(self, table) == [self EXCEPT !.from_table = Some(table)]

\* QueryBuilder.where
where(self, field, operator, value) ==
  [self EXCEPT !.where_conditions =
     Append(@, QueryCondition(Some(field), Some(operator), value, <<>>))]

\* QueryBuilder.where_condition
where_condition(self, condition) ==
  [self EXCEPT !.where_conditions = Append(@, condition)]

\* QueryBuilder.where_raw
where_raw(self, raw_where) ==
  [self EXCEPT !.where_conditions =
     Append(@, QueryCondition(<<>>, <<>>, VNone, Some(raw_where)))]

\* JoinType.to_sql
JoinTypeToSql(join_type) ==
  CASE join_type = "INNER" -> "INNER JOIN"
    [] join_type = "LEFT" -> "LEFT JOIN"
    [] join_type = "RIGHT" -> "RIGHT JOIN"
    [] join_type = "FULL_OUTER" -> "FULL OUTER JOIN"
    [] join_type = "CROSS" -> "CROSS JOIN"

\* SortOrder.to_sql
SortOrderToSql(order) == IF order = "ASC" THEN "ASC" ELSE "DESC"

\* QueryBuilder.join
join(self, table, condition, join_type) ==
  [self EXCEPT !.joins =
     Append(@, JoinTypeToSql(join_type) \o " " \o table \o " ON " \o condition)]

\* QueryBuilder.group_by
group_by(self, columns) ==
  [self EXCEPT !.group_by_columns = @ \o AsList(columns)]

\* QueryBuilder.having
having(self, condition) == [self EXCEPT !.having_clause = Some(condition)]

\* QueryBuilder.order_by
order_by(self, column, order) ==
  [self EXCEPT !.order_by_clauses = Append(@, column \o " " \o SortOrderToSql(order))]

\* QueryBuilder.limit
limit(self, count) == [self EXCEPT !.limit_count = Some(count)]

\* QueryBuilder.offset
offset(self, count) == [self EXCEPT !.offset_count = Some(count)]

\* a plausible slip: an entry method keeps the kind an earlier entry method set
insert_into_keeps_kind(self, table) ==
  [self EXCEPT !.query_type = IF @ = <<>> THEN Some("INSERT") ELSE @,
               !.target_table = Some(table)]

\* QueryBuilder.insert_into
insert_into(self, table) ==
  [self EXCEPT !.query_type = Some("INSERT"), !.target_table = Some(table)]

\* QueryBuilder.values
values(self, data) ==
  [self EXCEPT !.insert_rows = @ \o AsList(data)]

\* QueryBuilder.update
update(self, table) ==
  [self EXCEPT !.query_type = Some("UPDATE"), !.target_table = Some(table)]

\* QueryBuilder.set: set(field, value) is [field, value], set(dict) is [data]
set(self, arg) ==
  [self EXCEPT !.set_data =
     IF "field" \in DOMAIN arg THEN DictSet(@, arg.field, arg.value)
     ELSE DictUpdate(@, arg.data)]

\* a plausible slip: an entry method starts the statement afresh
delete_from_starts_over(self, table) ==
  [QueryBuilderNew EXCEPT !.query_type = Some("DELETE"), !.target_table = Some(table)]

\* QueryBuilder.delete_from
delete_from(self, table) ==
  [self EXCEPT !.query_type = Some("DELETE"), !.target_table = Some(table)]

\* what build() gives: the SQL text, or the message of the ValueError it raises
Returns(text) == [ok |-> TRUE, text |-> text]
Raises(message) == [ok |-> FALSE, text |-> message]

\* a plausible slip: the condition list is wrapped in parentheses
WherePartParenthesized(self) ==
  IF self.where_conditions # <<>>
  THEN <<"WHERE (" \o StrJoin([i \in 1..Len(self.where_conditions) |->
                                 to_sql(self.where_conditions[i])], " AND ") \o ")">>
  ELSE <<>>

\* the WHERE part shared by the three statement kinds that have one
WherePart(self) ==
  IF self.where_conditions # <<>>
  THEN <<"WHERE " \o StrJoin([i \in 1..Len(self.where_conditions) |->
                                to_sql(self.where_conditions[i])], " AND ")>>
  ELSE <<>>

\* a plausible slip: LIMIT is tested for truth, so limit(0) is dropped
build_select_truthy_limit(self) ==
  LET columns == IF self.select_columns # <<>>
                 THEN StrJoin(self.select_columns, ", ") ELSE "*"
      parts ==
        <<"SELECT " \o columns>>
        \o (IF Truthy(self.from_table) THEN <<"FROM " \o self.from_table[1]>> ELSE <<>>)
        \o self.joins
        \o WherePart(self)
        \o (IF self.group_by_columns # <<>>
            THEN <<"GROUP BY " \o StrJoin(self.group_by_columns, ", ")>> ELSE <<>>)
        \o (IF Truthy(self.having_clause)
            THEN <<"HAVING " \o self.having_clause[1]>> ELSE <<>>)
        \o (IF self.order_by_clauses # <<>>
            THEN <<"ORDER BY " \o StrJoin(self.order_by_clauses, ", ")>> ELSE <<>>)
        \o (IF self.limit_count # <<>> /\ self.limit_count[1] # 0
            THEN <<"LIMIT " \o ToString(self.limit_count[1])>> ELSE <<>>)
        \o (IF self.offset_count # <<>>
            THEN <<"OFFSET " \o ToString(self.offset_count[1])>> ELSE <<>>)
  IN Returns(StrJoin(parts, " "))

\* a plausible slip: OFFSET is written before LIMIT
build_select_offset_first(self) ==
  LET columns == IF self.select_columns # <<>>
                 THEN StrJoin(self.select_columns, ", ") ELSE "*"
      parts ==
        <<"SELECT " \o columns>>
        \o (IF Truthy(self.from_table) THEN <<"FROM " \o self.from_table[1]>> ELSE <<>>)
        \o self.joins
        \o WherePart(self)
        \o (IF self.group_by_columns # <<>>
            THEN <<"GROUP BY " \o StrJoin(self.group_by_columns, ", ")>> ELSE <<>>)
        \o (IF Truthy(self.having_clause)
            THEN <<"HAVING " \o self.having_clause[1]>> ELSE <<>>)
        \o (IF self.order_by_clauses # <<>>
            THEN <<"ORDER BY " \o StrJoin(self.order_by_clauses, ", ")>> ELSE <<>>)
        \o (IF self.offset_count # <<>>
            THEN <<"OFFSET " \o ToString(self.offset_count[1])>> ELSE <<>>)
        \o (IF self.limit_count # <<>>
            THEN <<"LIMIT " \o ToString(self.limit_count[1])>> ELSE <<>>)
  IN Returns(StrJoin(parts, " "))

\* QueryBuilder._build_select
build_select(self) ==
  LET columns == IF self.select_columns # <<>>
                 THEN StrJoin(self.select_columns, ", ") ELSE "*"
      parts ==
        <<"SELECT " \o columns>>
        \o (IF Truthy(self.from_table) THEN <<"FROM " \o self.from_table[1]>> ELSE <<>>)
        \o self.joins
        \o WherePart(self)
        \o (IF self.group_by_columns # <<>>
            THEN <<"GROUP BY " \o StrJoin(self.group_by_columns, ", ")>> ELSE <<>>)
        \o (IF Truthy(self.having_clause)
            THEN <<"HAVING " \o self.having_clause[1]>> ELSE <<>>)
        \o (IF self.order_by_clauses # <<>>
            THEN <<"ORDER BY " \o StrJoin(self.order_by_clauses, ", ")>> ELSE <<>>)
        \o (IF self.limit_count # <<>>
            THEN <<"LIMIT " \o ToString(self.limit_count[1])>> ELSE <<>>)
        \o (IF self.offset_count # <<>>
            THEN <<"OFFSET " \o ToString(self.offset_count[1])>> ELSE <<>>)
  IN Returns(StrJoin(parts, " "))

\* a plausible slip: the check for an empty row list is missing
build_insert_unchecked(self) ==
  Returns("INSERT INTO " \o Str(self.target_table) \o " () VALUES ")

\* a plausible slip: every row is written with its own values, in its own order
build_insert_own_values(self) ==
  IF self.insert_rows = <<>> THEN Raises("No values specified for INSERT")
  ELSE
    LET first_row == self.insert_rows[1]
        columns == DictKeys(first_row)
        columns_str == StrJoin(columns, ", ")
        values_lists ==
          [r \in 1..Len(self.insert_rows) |->
             "(" \o StrJoin([c \in 1..Len(self.insert_rows[r]) |->
                               format_value(self.insert_rows[r][c][2])],
                            ", ") \o ")"]
        values_str == StrJoin(values_lists, ", ")
    IN Returns("INSERT INTO " \o Str(self.target_table) \o " (" \o columns_str
               \o ") VALUES " \o values_str)

\* QueryBuilder._build_insert
build_insert(self) ==
  IF self.insert_rows = <<>> THEN Raises("No values specified for INSERT")
  ELSE
    LET first_row == self.insert_rows[1]
        columns == DictKeys(first_row)
        columns_str == StrJoin(columns, ", ")
        values_lists ==
          [r \in 1..Len(self.insert_rows) |->
             "(" \o StrJoin([c \in 1..Len(columns) |->
                               format_value(DictGet(self.insert_rows[r], columns[c]))],
                            ", ") \o ")"]
        values_str == StrJoin(values_lists, ", ")
    IN Returns("INSERT INTO " \o Str(self.target_table) \o " (" \o columns_str
               \o ") VALUES " \o values_str)

\* QueryBuilder._build_update
build_update(self) ==
  IF self.set_data = <<>> THEN Raises("No SET data specified for UPDATE")
  ELSE
    LET set_clauses == [i \in 1..Len(self.set_data) |->
                          self.set_data[i][1] \o " = " \o format_value(self.set_data[i][2])]
        set_str == StrJoin(set_clauses, ", ")
        parts == <<"UPDATE " \o Str(self.target_table), "SET " \o set_str>>
                 \o WherePart(self)
    IN Returns(StrJoin(parts, " "))

\* QueryBuilder._build_delete
build_delete(self) ==
  Returns(StrJoin(<<"DELETE FROM " \o Str(self.target_table)>> \o WherePart(self), " "))

\* QueryBuilder.build
build(self) ==
  IF self.query_type = Some("SELECT") THEN build_select(self)
  ELSE IF self.query_type = Some("INSERT") THEN build_insert(self)
  ELSE IF self.query_type = Some("UPDATE") THEN build_update(self)
  ELSE IF self.query_type = Some("DELETE") THEN build_delete(self)
  ELSE Raises("No query type set")

\* a plausible slip: build starts the builder over once the text is made
after_build_resets(self) ==
  [self EXCEPT !.query_type = <<>>, !.select_columns = <<>>, !.from_table = <<>>,
               !.where_conditions = <<>>, !.joins = <<>>, !.group_by_columns = <<>>,
               !.having_clause = <<>>, !.order_by_clauses = <<>>, !.limit_count = <<>>,
               !.offset_count = <<>>, !.target_table = <<>>, !.set_data = <<>>,
               !.insert_rows = <<>>]

\* the builder's fields after build(): build, _build_select, _build_insert,
\* _build_update and _build_delete read the fields into locals and assign none
after_build(self) == self

\* a plausible slip: reset forgets the WHERE list
reset_keeps_where(self) ==
  [QueryBuilderNew EXCEPT !.where_conditions = self.where_conditions]

\* QueryBuilder.reset
reset(self) ==
  [self EXCEPT !.query_type = <<>>, !.select_columns = <<>>, !.from_table = <<>>,
               !.where_conditions = <<>>, !.joins = <<>>, !.group_by_columns = <<>>,
               !.having_clause = <<>>, !.order_by_clauses = <<>>, !.limit_count = <<>>,
               !.offset_count = <<>>, !.target_table = <<>>, !.set_data = <<>>,
               !.insert_rows = <<>>]

(***************************************************************************)
(* The calls made on the builder, with the arguments they are given        *)
(***************************************************************************)
Leaf1 == QueryCondition(Some("a"), Some("="), VInt(1), <<>>)
Leaf2 == QueryCondition(Some("b"), Some("LIKE"), VStr("x'y"), <<>>)
Row1 == << <<"a", VInt(1)>>, <<"b", VStr("x'y")>> >>
Row2 == << <<"b", VBool(TRUE)>>, <<"c", VNone>> >>

ColumnArgs == {[one |-> "a"], [many |-> <<"a", "b">>], [many |-> <<>>]}
FromTables == {"t", ""}
WhereValues == {VInt(5), VStr("x'y"), VNone}
Conditions == {cond_or(cond_and(Leaf1, Leaf2), Leaf1)}
RawWheres == {"r = 1", ""}
JoinTypes == {"INNER", "LEFT"}
HavingTexts == {"c > 1", ""}
SortOrders == {"ASC", "DESC"}
LimitCounts == {0, 10}
OffsetCounts == {0}
GroupArgs == {[one |-> "a"], [many |-> <<>>]}
ValuesArgs == {[one |-> Row1], [one |-> <<>>], [many |-> <<Row1, Row2>>], [many |-> <<>>]}
SetArgs == {[field |-> "a", value |-> VNone], [data |-> Row1], [data |-> <<>>]}

\* the clauses of a SELECT that a builder method feeds
Clauses == {"columns", "FROM", "WHERE", "GROUP BY", "HAVING", "ORDER BY", "LIMIT", "OFFSET"}
\* "unset": method not called; "empty": called, with nothing in hand; "set": called
\* with something
NothingFed == [c \in Clauses |-> "unset"]

\* no QueryCondition call has been made
NoCondCall == [op |-> "none", self |-> 0, other |-> 0, ret |-> 0]

\* a value handed to neither formatter yet
Unformatted(value) == [value |-> value, in_condition |-> <<>>, in_builder |-> <<>>]

\* the builder, the condition objects and the bookkeeping, one behaviour's start
QueryInit ==
  /\ qb = QueryBuilderNew
  /\ fresh = QueryBuilderNew
  /\ was_reset = FALSE
  /\ dirty_reset = FALSE
  /\ first_entry = <<>>
  /\ last_entry = <<>>
  /\ rows_added = 0
  /\ sets_added = 0
  /\ result = <<>>
  /\ builds = 0
  /\ fed = NothingFed
  /\ where_hist = <<>>
  /\ joins_hist = <<>>
  /\ rows_hist = <<>>
  /\ qcalls = 0
  /\ conds = <<>>
  /\ cond_call = NoCondCall

BuilderInit == QueryInit /\ fmt = Unformatted(VNone)

\* one mutating call: the builder becomes nqb; the builder constructed at the last
\* reset gets the same call and becomes nfresh
QCall(nqb, nfresh) ==
  /\ qcalls < MaxQCalls
  /\ qcalls' = qcalls + 1
  /\ qb' = nqb
  /\ fresh' = IF was_reset THEN nfresh ELSE fresh
  /\ result' = <<>>
  /\ builds' = 0
  /\ UNCHANGED <<poolVars, mgrVars, was_reset, dirty_reset, conds, cond_call, fmt>>

\* the call is the entry method of statement kind k
Entry(k) ==
  /\ first_entry' = IF first_entry = <<>> THEN Some(k) ELSE first_entry
  /\ last_entry' = Some(k)

NoEntry == UNCHANGED <<first_entry, last_entry>>
NoPayload == UNCHANGED <<rows_added, sets_added, rows_hist>>
\* the call hands the clause something (status "set") or nothing ("empty")
Feeds(clause, status) == fed' = [fed EXCEPT ![clause] = status]
\* a clause that collects items over several calls
Collected(old, n) == IF n > 0 THEN "set" ELSE IF old = "unset" THEN "empty" ELSE old
\* a clause that keeps the last text given
Given(text) == IF text = "" THEN "empty" ELSE "set"
NoJoin == UNCHANGED joins_hist
NoWhere == UNCHANGED <<where_hist, joins_hist>>
NoFeed == UNCHANGED <<fed, where_hist, joins_hist>>

CallSelect ==
  \E columns \in ColumnArgs :
    /\ QCall(select(qb, columns), select(fresh, columns)) /\ Entry("SELECT") /\ NoPayload
    /\ Feeds("columns", Collected(fed["columns"], Len(AsList(columns)))) /\ NoWhere

CallFromTable ==
  \E table \in FromTables :
    /\ QCall(from_table(qb, table), from_table(fresh, table)) /\ NoEntry /\ NoPayload
    /\ Feeds("FROM", Given(table)) /\ NoWhere

CallWhere ==
  \E value \in WhereValues :
    /\ QCall(where(qb, "x", ">", value), where(fresh, "x", ">", value)) /\ NoEntry /\ NoPayload
    /\ Feeds("WHERE", "set") /\ NoJoin
    /\ where_hist' = Append(where_hist,
                             to_sql(QueryCondition(Some("x"), Some(">"), value, <<>>)))

CallWhereCondition ==
  \E condition \in Conditions :
    /\ QCall(where_condition(qb, condition), where_condition(fresh, condition))
    /\ NoEntry /\ NoPayload
    /\ Feeds("WHERE", "set") /\ NoJoin
    /\ where_hist' = Append(where_hist, to_sql(condition))

CallWhereRaw ==
  \E raw_where \in RawWheres :
    /\ QCall(where_raw(qb, raw_where), where_raw(fresh, raw_where)) /\ NoEntry /\ NoPayload
    /\ Feeds("WHERE", "set") /\ NoJoin
    /\ where_hist' = Append(where_hist,
                             to_sql(QueryCondition(<<>>, <<>>, VNone, Some(raw_where))))

CallJoin ==
  \E join_type \in JoinTypes :
    /\ QCall(join(qb, "u", "t.id = u.id", join_type),
             join(fresh, "u", "t.id = u.id", join_type))
    /\ NoEntry /\ NoPayload
    /\ joins_hist' = Append(joins_hist, join_type)
    /\ UNCHANGED <<fed, where_hist>>

CallGroupBy ==
  \E columns \in GroupArgs :
    /\ QCall(group_by(qb, columns), group_by(fresh, columns)) /\ NoEntry /\ NoPayload
    /\ Feeds("GROUP BY", Collected(fed["GROUP BY"], Len(AsList(columns)))) /\ NoWhere

CallHaving ==
  \E condition \in HavingTexts :
    /\ QCall(having(qb, condition), having(fresh, condition)) /\ NoEntry /\ NoPayload
    /\ Feeds("HAVING", Given(condition)) /\ NoWhere

CallOrderBy ==
  \E order \in SortOrders :
    /\ QCall(order_by(qb, "a", order), order_by(fresh, "a", order)) /\ NoEntry /\ NoPayload
    /\ Feeds("ORDER BY", "set") /\ NoWhere

CallLimit ==
  \E count \in LimitCounts :
    /\ QCall(limit(qb, count), limit(fresh, count)) /\ NoEntry /\ NoPayload
    /\ Feeds("LIMIT", "set") /\ NoWhere

CallOffset ==
  \E count \in OffsetCounts :
    /\ QCall(offset(qb, count), offset(fresh, count)) /\ NoEntry /\ NoPayload
    /\ Feeds("OFFSET", "set") /\ NoWhere

CallInsertInto ==
  QCall(insert_into(qb, "t"), insert_into(fresh, "t")) /\ Entry("INSERT") /\ NoPayload /\ NoFeed

CallValues ==
  \E data \in ValuesArgs :
    /\ QCall(values(qb, data), values(fresh, data))
    /\ rows_added' = rows_added + Len(AsList(data))
    /\ rows_hist' = rows_hist \o AsList(data)
    /\ UNCHANGED sets_added
    /\ NoEntry /\ NoFeed

CallUpdate ==
  QCall(update(qb, "t"), update(fresh, "t")) /\ Entry("UPDATE") /\ NoPayload /\ NoFeed

CallSet ==
  \E arg \in SetArgs :
    /\ QCall(set(qb, arg), set(fresh, arg))
    /\ sets_added' = sets_added + (IF "field" \in DOMAIN arg THEN 1 ELSE Len(arg.data))
    /\ UNCHANGED <<rows_added, rows_hist>>
    /\ NoEntry /\ NoFeed

CallDeleteFrom ==
  QCall(delete_from(qb, "t"), delete_from(fresh, "t")) /\ Entry("DELETE") /\ NoPayload /\ NoFeed

\* qb.reset(); from here on a newly constructed builder gets the same calls
CallReset ==
  /\ qcalls < MaxQCalls
  /\ qcalls' = qcalls + 1
  /\ qb' = reset(qb)
  /\ fresh' = QueryBuilderNew
  /\ was_reset' = TRUE
  /\ dirty_reset' = (qb # QueryBuilderNew)
  /\ first_entry' = <<>>
  /\ last_entry' = <<>>
  /\ rows_added' = 0
  /\ sets_added' = 0
  /\ result' = <<>>
  /\ builds' = 0
  /\ fed' = NothingFed
  /\ where_hist' = <<>>
  /\ joins_hist' = <<>>
  /\ rows_hist' = <<>>
  /\ UNCHANGED <<poolVars, mgrVars, conds, cond_call, fmt>>

\* qb.build(): the text or the failure is handed back; the builder's fields are
\* what build leaves in them
CallBuild ==
  /\ builds < MaxBuilds
  /\ builds' = builds + 1
  /\ result' = Some(build(qb))
  /\ qb' = after_build(qb)
  /\ fresh' = IF was_reset THEN after_build(fresh) ELSE fresh
  /\ UNCHANGED <<poolVars, mgrVars, was_reset, dirty_reset, first_entry, last_entry,
                 rows_added, sets_added, fed, where_hist, joins_hist, rows_hist, qcalls,
                 conds, cond_call, fmt>>

\* the builder's specification: one owner makes the calls one after the other; the
\* pool is not used
BuilderNext ==
  \/ CallSelect
  \/ CallFromTable
  \/ CallWhere
  \/ CallWhereCondition
  \/ CallWhereRaw
  \/ CallJoin
  \/ CallGroupBy
  \/ CallHaving
  \/ CallOrderBy
  \/ CallLimit
  \/ CallOffset
  \/ CallInsertInto
  \/ CallValues
  \/ CallUpdate
  \/ CallSet
  \/ CallDeleteFrom
  \/ CallReset
  \/ CallBuild

BuilderSpecInit ==
  /\ PoolInit
  /\ ManagerInit
  /\ config = [min_connections |-> 0, max_connections |-> 0]
  /\ BuilderInit

BuilderSpec == BuilderSpecInit /\ [][BuilderNext]_vars

(***************************************************************************)
(* A handle given back while callers wait in acquire                       *)
(***************************************************************************)
\* the owner's one acquire() call
OwnerAcquireStart ==
  /\ pc[Owner] = "idle"
  /\ Published
  /\ ret[Owner] = NoRet
  /\ held[Owner] = {}
  /\ pc' = [pc EXCEPT ![Owner] = "a_get"]
  /\ conn' = [conn EXCEPT ![Owner] = None]
  /\ exh' = [exh EXCEPT ![Owner] = AllCheckedOut]
  /\ UNCHANGED <<qbVars, mgrVars, reuse, handoff, config, available, in_use, lock, stats_lock,
                 total_connections, stats, ret, init_i, next_handle, held, misuse, calls>>

\* the owner's release(h) of the handle it holds
OwnerReleaseStart ==
  /\ pc[Owner] = "idle"
  /\ \E h \in held[Owner] :
       /\ conn' = [conn EXCEPT ![Owner] = h]
       /\ held' = [held EXCEPT ![Owner] = @ \ {h}]
  /\ ret' = [ret EXCEPT ![Owner] = NoRet]
  /\ exh' = [u \in AllThreads |-> FALSE]
  /\ pc' = [pc EXCEPT ![Owner] = "r_lock"]
  /\ UNCHANGED <<qbVars, mgrVars, reuse, handoff, config, available, in_use, lock, stats_lock,
                 total_connections, stats, init_i, next_handle, misuse, calls>>

\* the steps of acquire and release
HandoffStep(t) ==
  \/ CreateConnection(t)
  \/ CreateLock(t)
  \/ AcquireGet(t)
  \/ AcquireAppend(t)
  \/ AcquireStats(t)
  \/ AcquireLock2(t)
  \/ AcquireAfterCreate(t)
  \/ AcquireFail(t)
  \/ ReleaseLock(t)
  \/ ReleasePut(t)

\* a pool of one connection; the owner acquires and releases, the others acquire
HandoffNext ==
  \/ InitLoop
  \/ InitPut
  \/ \E t \in AllThreads : HandoffStep(t)
  \/ \E t \in Threads : AcquireStart(t)
  \/ OwnerAcquireStart
  \/ OwnerReleaseStart

HandoffSpecInit ==
  /\ PoolInit
  /\ ManagerInit
  /\ config = [min_connections |-> 1, max_connections |-> 1]
  /\ BuilderInit

HandoffSpec == HandoffSpecInit /\ [][HandoffNext]_vars

(***************************************************************************)
(* QueryCondition objects: made, combined with & and |, serialized         *)
(***************************************************************************)
\* QueryCondition objects made in one behaviour
MaxConds == 4

\* the conditions a caller constructs: a comparison, a raw text, and a call that
\* passes all four arguments (the constructor takes any of them in any mix)
CondLeaves ==
  {Leaf2,
   QueryCondition(<<>>, <<>>, VNone, Some("r = 1")),
   QueryCondition(Some("a"), Some("="), VInt(1), Some("r = 1"))}

\* the condition tree that hangs from object k: every reference in sub_conditions
\* is followed
RECURSIVE Deref(_, _)
Deref(objects, k) ==
  [objects[k] EXCEPT !.sub_conditions =
     [i \in 1..Len(objects[k].sub_conditions) |->
        Deref(objects, objects[k].sub_conditions[i])]]

\* objects[k].to_sql()
SqlAt(objects, k) == to_sql(Deref(objects, k))

\* the unchanged fields of the steps below
CondFrame ==
  UNCHANGED <<poolVars, mgrVars, qb, fresh, was_reset, dirty_reset, first_entry, last_entry,
              rows_added, sets_added, result, builds, fed, where_hist, joins_hist,
              rows_hist, qcalls, fmt>>

\* QueryCondition(field, operator, value) or QueryCondition(raw_condition=...)
CondNew ==
  /\ Len(conds) < MaxConds
  /\ \E leaf \in CondLeaves : conds' = Append(conds, leaf)
  /\ cond_call' = [op |-> "new", self |-> 0, other |-> 0, ret |-> Len(conds) + 1]
  /\ CondFrame

\* a plausible slip: the operator is stored in self, not in the new node
CondAndMarksSelf(self, other) ==
  /\ Len(conds) < MaxConds
  /\ conds' = Append([conds EXCEPT ![self].logical_operator = Some("AND")],
                     [QueryCondition(<<>>, <<>>, VNone, <<>>) EXCEPT
                        !.sub_conditions = <<self, other>>])
  /\ cond_call' = [op |-> "and", self |-> self, other |-> other, ret |-> Len(conds) + 1]
  /\ CondFrame

\* self & other: a new object that refers to the two operands
CondAnd(self, other) ==
  /\ Len(conds) < MaxConds
  /\ conds' = Append(conds, cond_and(self, other))
  /\ cond_call' = [op |-> "and", self |-> self, other |-> other, ret |-> Len(conds) + 1]
  /\ CondFrame

\* self | other
CondOr(self, other) ==
  /\ Len(conds) < MaxConds
  /\ conds' = Append(conds, cond_or(self, other))
  /\ cond_call' = [op |-> "or", self |-> self, other |-> other, ret |-> Len(conds) + 1]
  /\ CondFrame

CondNext ==
  \/ CondNew
  \/ \E self, other \in 1..Len(conds) : CondAnd(self, other)
  \/ \E self, other \in 1..Len(conds) : CondOr(self, other)

ConditionSpecInit ==
  /\ PoolInit
  /\ ManagerInit
  /\ config = [min_connections |-> 0, max_connections |-> 0]
  /\ BuilderInit

ConditionSpec == ConditionSpecInit /\ [][CondNext]_vars

(***************************************************************************)
(* Value formatting: QueryCondition.to_sql and QueryBuilder._format_value  *)
(***************************************************************************)
\* longest text value formatted
MaxStrLen == 3

\* the texts of at most n characters made of a letter and the single quote
RECURSIVE StringsUpTo(_)
StringsUpTo(n) ==
  IF n = 0 THEN {""}
  ELSE LET shorter == StringsUpTo(n - 1)
       IN shorter \cup {c \o t : c \in {"a", "'"}, t \in shorter}

\* DatabaseValue: None, text, booleans, whole numbers
FormatValues ==
  {VNone} \cup {VStr(t) : t \in StringsUpTo(MaxStrLen)} \cup {VBool(b) : b \in BOOLEAN}
  \cup {VInt(i) : i \in -12..12}

FormatFrame ==
  UNCHANGED <<poolVars, mgrVars, qb, fresh, was_reset, dirty_reset, first_entry, last_entry,
              rows_added, sets_added, result, builds, fed, where_hist, joins_hist,
              rows_hist, qcalls, conds, cond_call>>

\* QueryCondition("f", "=", value).to_sql()
FormatInCondition ==
  /\ fmt.in_condition = <<>>
  /\ fmt' = [fmt EXCEPT !.in_condition =
                Some(to_sql(QueryCondition(Some("f"), Some("="), fmt.value, <<>>)))]
  /\ FormatFrame

\* QueryBuilder()._format_value(value)
FormatInBuilder ==
  /\ fmt.in_builder = <<>>
  /\ fmt' = [fmt EXCEPT !.in_builder = Some(format_value(fmt.value))]
  /\ FormatFrame

FormatNext == FormatInCondition \/ FormatInBuilder

FormatSpecInit ==
  /\ PoolInit
  /\ ManagerInit
  /\ config = [min_connections |-> 0, max_connections |-> 0]
  /\ QueryInit
  /\ fmt \in {Unformatted(value) : value \in FormatValues}

FormatSpec == FormatSpecInit /\ [][FormatNext]_vars

(***************************************************************************)
(* The manager's specification: threads that get the singleton and use it  *)
(***************************************************************************)
ManagerStep(t) ==
  \/ HandleStart(t)
  \/ NewCheck(t)
  \/ NewLock(t)
  \/ NewCreate(t)
  \/ NewFlag(t)
  \/ InitCheck(t)
  \/ InitFields(t)
  \/ InitPoolLock(t)
  \/ InitFlag(t)
  \/ \E db_type \in DbTypes : CreatePoolStart(t, db_type)
  \/ \E db_type \in DbTypes : GetPoolStart(t, db_type)
  \/ PoolLockRead(t)
  \/ PoolLockAcquire(t)
  \/ CreatePoolCheck(t)
  \/ CreatePoolStore(t)
  \/ GetPoolBody(t)

ManagerNext == \E t \in Threads : ManagerStep(t)

ManagerSpecInit ==
  /\ PoolInit
  /\ config = [min_connections |-> 0, max_connections |-> 0]
  /\ BuilderInit
  /\ ManagerInit

ManagerSpec == ManagerSpecInit /\ [][ManagerNext]_vars

(***************************************************************************)
(* The pool's specification                                                *)
(***************************************************************************)
\* the steps a thread takes inside a call it has begun (the scheduler runs them)
ThreadStep(t) ==
  \/ CreateConnection(t)
  \/ CreateLock(t)
  \/ AcquireGet(t)
  \/ AcquireAppend(t)
  \/ AcquireStats(t)
  \/ AcquireLock2(t)
  \/ AcquireAfterCreate(t)
  \/ AcquireFail(t)
  \/ ReleaseLock(t)
  \/ ReleasePut(t)
  \/ GetStatsTotal(t)
  \/ GetStatsActive(t)
  \/ GetStatsAvailable(t)
  \/ GetStatsReturn(t)

\* the calls the callers choose to make
CallStart(t) ==
  \/ AcquireStart(t)
  \/ ReleaseStart(t)
  \/ GetStatsStart(t)

Init == PoolInit /\ BuilderInit /\ ManagerInit

Next ==
  \/ InitLoop
  \/ InitPut
  \/ \E t \in AllThreads : ThreadStep(t)
  \/ \E t \in Threads : CallStart(t)

Spec == Init /\ [][Next]_vars

\* every thread that can take a step of its call eventually takes one (the
\* interpreter schedules every runnable thread; a Queue.get timeout ends)
FairSpec == Spec /\ \A t \in AllThreads : WF_vars(ThreadStep(t)) /\ WF_vars(InitLoop \/ InitPut)

(***************************************************************************)
(* Properties of the connection pool                                       *)
(***************************************************************************)
\* the statements of acquire, of the _create_new_connection it calls, and of release
AcquirePcs == {"a_get", "a_append", "a_stats", "a_lock2", "c_factory", "c_lock",
               "a_after_create", "a_fail"}
ReleasePcs == {"r_lock", "r_put"}

\* C1: every acquire call eventually returns (a handle or None), whatever the other
\* threads do, given that the factory returns: acquire never blocks for ever.
C1_AcquireReturns ==
  \A t \in Threads : (pc[t] \in AcquirePcs) ~> (pc[t] = "idle")

\* C2: an acquire that found the queue empty and the total below max_connections, and
\* whose factory call produced a handle, goes on to count it, to put it in the in-use
\* list and to return it.
C2_OnDemandCreationReturns ==
  \A t \in Threads : \A h \in 1..MaxCalls + MaxConn :
    (pc[t] = "c_lock" /\ conn[t] = h)
      ~> (pc[t] = "idle" /\ ret[t].op = "acquire" /\ ret[t].conn = h /\ InList(in_use, h))

\* C3: as long as every release(h) is issued by the caller that holds h, no handle is
\* held by two callers at once, and a handle a caller holds is not in the queue for a
\* further acquire to take.
C3_NoSharedHandle ==
  ~misuse =>
    /\ \A t1 \in Threads : \A t2 \in Threads \ {t1} : held[t1] \cap held[t2] = {}
    /\ \A t \in Threads : \A h \in held[t] : ~InList(available, h)

\* C3 witness: one handle in all, acquired by one caller, released, and now held by
\* the other caller.
C3_Witness ==
  /\ ~misuse
  /\ next_handle = 2
  /\ stats.successful_acquisitions = 2
  /\ \E t1 \in Threads : \E t2 \in Threads \ {t1} :
       ret[t1].op = "release" /\ held[t1] = {} /\ held[t2] = {1}

\* C4: every snapshot get_stats returns has active + available <= total <= max.
C4_SnapshotInvariant ==
  \A t \in Threads :
    ret[t].op = "get_stats" =>
      /\ ret[t].snap.active_connections + ret[t].snap.available_connections
           <= ret[t].snap.total_connections
      /\ ret[t].snap.total_connections <= config.max_connections

\* C5: in every state of the pool's own data, the in-use list and the available queue
\* together hold at most total_connections handles, and total_connections is at most
\* max_connections.
C5_PoolInvariant ==
  /\ Len(in_use) + Len(available) <= total_connections
  /\ total_connections <= config.max_connections

\* C5 witness: a full pool of two handles after an acquire, a release and another
\* acquire: one handle in use, one back in the queue.
C5_Witness ==
  /\ total_connections = config.max_connections
  /\ Len(in_use) >= 1
  /\ Len(available) >= 1
  /\ \E t \in Threads : ret[t].op = "release"

\* C6: an acquire that begins with max_connections handles checked out, with no
\* release since, changes neither the total, nor the two handle collections, nor
\* successful_acquisitions; the step it returns with returns None and adds exactly one
\* to failed_acquisitions, and no other step of it touches that counter.
C6_ExhaustedAcquireFails ==
  [][\A t \in Threads :
       (exh[t] /\ pc[t] \in AcquirePcs /\ pc'[t] # pc[t]) =>
         /\ UNCHANGED <<total_connections, in_use, available>>
         /\ stats'.successful_acquisitions = stats.successful_acquisitions
         /\ IF pc'[t] = "idle"
            THEN /\ ret'[t].op = "acquire"
                 /\ ret'[t].conn = None
                 /\ stats'.failed_acquisitions = stats.failed_acquisitions + 1
            ELSE stats'.failed_acquisitions = stats.failed_acquisitions]_vars

\* C6 witness: with at least one handle in the pool and all of them checked out, one
\* more acquire has returned None and has been counted as failed.
C6_Witness ==
  \E t \in Threads :
    /\ exh[t]
    /\ pc[t] = "idle"
    /\ ret[t].op = "acquire"
    /\ ret[t].conn = None
    /\ config.max_connections >= 1
    /\ Len(in_use) = config.max_connections
    /\ stats.failed_acquisitions = 1

\* C7: every release call returns: release never blocks, whatever the other threads
\* are doing inside acquire.
C7_ReleaseReturns ==
  \A t \in Threads : (pc[t] \in ReleasePcs) ~> (pc[t] = "idle")

(***************************************************************************)
(* Properties of the query builder                                         *)
(***************************************************************************)
\* text.startswith(prefix)
StartsWith(text, prefix) ==
  Len(text) >= Len(prefix) /\ SubSeq(text, 1, Len(prefix)) = prefix

\* the statement kind a build result shows: the keyword the text begins with, or the
\* kind whose check raised; <<>> when build found no kind at all
StatementKind(r) ==
  IF r.ok
  THEN IF StartsWith(r.text, "SELECT ") THEN Some("SELECT")
       ELSE IF StartsWith(r.text, "INSERT INTO ") THEN Some("INSERT")
       ELSE IF StartsWith(r.text, "UPDATE ") THEN Some("UPDATE")
       ELSE IF StartsWith(r.text, "DELETE FROM ") THEN Some("DELETE")
       ELSE Some("?")
  ELSE IF r.text = "No values specified for INSERT" THEN Some("INSERT")
       ELSE IF r.text = "No SET data specified for UPDATE" THEN Some("UPDATE")
       ELSE <<>>

\* C8: build raises exactly when no entry method has set a kind, or the kind is INSERT
\* and no row mapping was added, or the kind is UPDATE and no assignment was added;
\* otherwise it returns text.
C8_BuildFailsExactly ==
  result # <<>> =>
    ((~result[1].ok) <=>
       \/ last_entry = <<>>
       \/ (last_entry = Some("INSERT") /\ rows_added = 0)
       \/ (last_entry = Some("UPDATE") /\ sets_added = 0))

\* C8 witness: build was called on an INSERT builder that got values([]) only, and
\* raised.
C8_Witness ==
  /\ result # <<>>
  /\ ~result[1].ok
  /\ last_entry = Some("INSERT")
  /\ qcalls >= 2

\* C9 as claimed: the statement kind build shows is the one of the entry method
\* called first since construction or the last reset.
C9_FirstEntrySelects ==
  (result # <<>> /\ first_entry # <<>>) => StatementKind(result[1]) = first_entry

\* C9 amended: the statement kind build shows is the one of the entry method called
\* last since construction or the last reset (none when none was called).
C9_LastEntrySelects ==
  result # <<>> => StatementKind(result[1]) = last_entry

\* C9 witness: two different entry methods were called, then build.
C9_Witness ==
  /\ result # <<>>
  /\ first_entry # <<>>
  /\ first_entry # last_entry

\* C10: after reset(), the builder builds what a newly constructed builder given the
\* same calls builds: the same text or the same failure.
C10_ResetIsFresh ==
  was_reset => build(qb) = build(fresh)

\* C10 witness: a builder that held something was reset, got an entry call, and
\* builds text.
C10_Witness ==
  /\ was_reset
  /\ dirty_reset
  /\ result # <<>>
  /\ result[1].ok


\* C11: a build() call leaves every field of the builder as it was, whether it
\* hands back text or fails, and a build() made right after another build() hands
\* back what the first one did.
C11_BuildKeepsBuilder ==
  [][builds' = builds + 1 =>
       /\ qb' = qb
       /\ builds > 0 => result' = result]_vars

\* two builds in a row on a builder that holds a statement with a WHERE list
C11_Witness ==
  /\ builds = 2
  /\ result # <<>>
  /\ result[1].ok
  /\ qb.where_conditions # <<>>


\* the places (index of the first character) where pat occurs in text
Occurrences(text, pat) ==
  {i \in 1..(Len(text) - Len(pat) + 1) : SubSeq(text, i, i + Len(pat) - 1) = pat}

Contains(text, pat) == Occurrences(text, pat) # {}

\* the clause keywords of a SELECT, in the order the specification gives them
ClauseKeywords ==
  <<" FROM ", " JOIN ", " WHERE ", " GROUP BY ", " HAVING ", " ORDER BY ", " LIMIT ",
    " OFFSET ">>

\* build() was the last call, on a SELECT builder, and handed back text
BuiltSelect == result # <<>> /\ last_entry = Some("SELECT") /\ result[1].ok

\* one call per clause of a SELECT, numbered in clause order
FeedCall(k, b) ==
  CASE k = 1 -> select(b, [one |-> "a"])
    [] k = 2 -> from_table(b, "t")
    [] k = 3 -> join(b, "u", "t.id = u.id", "LEFT")
    [] k = 4 -> where(b, "x", ">", VInt(5))
    [] k = 5 -> group_by(b, [one |-> "a"])
    [] k = 6 -> having(b, "c > 1")
    [] k = 7 -> order_by(b, "a", "DESC")
    [] k = 8 -> limit(b, 10)
    [] k = 9 -> offset(b, 0)

\* C12: the text built for a SELECT begins with SELECT and has its clause keywords
\* in the order FROM, joins, WHERE, GROUP BY, HAVING, ORDER BY, LIMIT, OFFSET, the
\* joins in the order they were added, whatever the order of the calls was; two
\* calls that feed different clauses give the same text in either order.
C12_ClauseOrder ==
  /\ BuiltSelect =>
       LET text == result[1].text
           at == [k \in 1..Len(ClauseKeywords) |-> Occurrences(text, ClauseKeywords[k])]
       IN
         /\ StartsWith(text, "SELECT ")
         /\ \A j, k \in 1..Len(ClauseKeywords) :
              j < k => \A m \in at[j] : \A n \in at[k] : m < n
         /\ Cardinality(at[2]) = Len(joins_hist)
         /\ joins_hist # <<>> =>
              Contains(text, StrJoin([i \in 1..Len(joins_hist) |->
                                        JoinTypeToSql(joins_hist[i]) \o " u ON t.id = u.id"],
                                     " "))
  /\ (last_entry = Some("SELECT") /\ builds = 0) =>
       \A j, k \in 1..9 :
         j < k => build(FeedCall(j, FeedCall(k, qb))) = build(FeedCall(k, FeedCall(j, qb)))

\* a SELECT built after two different joins were added, select being called last
C12_Witness ==
  /\ BuiltSelect
  /\ joins_hist = <<"LEFT", "INNER">>


\* the clauses a builder method may add after the column list
OptionalClauses == Clauses \ {"columns"}

\* the clause's keyword stands in the text as a part of its own
Present(text, clause) == Contains(text, " " \o clause \o " ")

\* the column list of the text is "*"
StarColumns(text) ==
  text = "SELECT *" \/ StartsWith(text, "SELECT * ")

\* the text has no space in front, none at the end and no two in a row
SingleSpaced(text) ==
  /\ text # ""
  /\ Head(text) # " "
  /\ SubSeq(text, Len(text), Len(text)) # " "
  /\ ~Contains(text, "  ")

AfterWhere(text) ==
  LET at == Occurrences(text, " WHERE ")
      first == CHOOSE i \in at : \A j \in at : i <= j
  IN SubSeq(text, first + Len(" WHERE "), Len(text))

\* the clauses that may follow WHERE in a SELECT
AfterWhereKeywords == <<" GROUP BY ", " HAVING ", " ORDER BY ", " LIMIT ", " OFFSET ">>

\* build() was the last call, on a builder of a kind that takes WHERE, and handed
\* back text
BuiltWithWhere ==
  /\ result # <<>>
  /\ last_entry \in {Some("SELECT"), Some("UPDATE"), Some("DELETE")}
  /\ result[1].ok

\* C14: in the text built for a SELECT, an UPDATE or a DELETE the WHERE clause is
\* "WHERE " followed by the texts of the conditions added by where, where_condition
\* and where_raw, in the order added, with " AND " between them and nothing around
\* the list; the clause ends the UPDATE and the DELETE and is followed in a SELECT
\* by nothing or by the next clause; there is no WHERE when no condition was added.
C14_WhereList ==
  BuiltWithWhere =>
    LET text == result[1].text IN
      IF where_hist = <<>> THEN ~Contains(text, "WHERE")
      ELSE
        /\ Cardinality(Occurrences(text, " WHERE ")) = 1
        /\ LET list == StrJoin(where_hist, " AND ")
               rest == AfterWhere(text)
               tail == SubSeq(rest, Len(list) + 1, Len(rest))
           IN /\ StartsWith(rest, list)
              /\ IF last_entry = Some("SELECT")
                 THEN tail = "" \/ \E k \in 1..Len(AfterWhereKeywords) :
                                     StartsWith(tail, AfterWhereKeywords[k])
                 ELSE tail = ""

\* a DELETE built after a composed condition and then a plain one were added
C14_Witness ==
  /\ BuiltWithWhere
  /\ last_entry = Some("DELETE")
  /\ Len(where_hist) = 2
  /\ Head(where_hist[1]) = "("
  /\ Head(where_hist[2]) # "("


\* build() was the last call, on an INSERT builder, and handed back text
BuiltInsert == result # <<>> /\ last_entry = Some("INSERT") /\ result[1].ok

\* the value tuple the specification gives a row under the given columns
RowTuple(row, columns) ==
  "(" \o StrJoin([c \in 1..Len(columns) |->
                    IF DictHas(row, columns[c])
                    THEN format_value(DictGet(row, columns[c])) ELSE "NULL"], ", ")
      \o ")"

\* C15: the text built for an INSERT with at least one row names the keys of the
\* first row passed to values, in their order, as the column list, and then has one
\* tuple per row, in the order the rows were passed; position i of a tuple is the
\* row's formatted value for column i, or NULL when the row has no such key; keys
\* that only later rows have appear nowhere.
C15_InsertTuples ==
  BuiltInsert =>
    /\ rows_hist # <<>>
    /\ LET columns == DictKeys(rows_hist[1])
           text == result[1].text
       IN /\ text = "INSERT INTO t (" \o StrJoin(columns, ", ") \o ") VALUES "
                      \o StrJoin([r \in 1..Len(rows_hist) |->
                                     RowTuple(rows_hist[r], columns)], ", ")
          /\ Cardinality(Occurrences(text, "(")) = Len(rows_hist) + 1

\* an INSERT built from two rows, the second lacking a key of the first and having
\* a key of its own
C15_Witness ==
  /\ BuiltInsert
  /\ Len(rows_hist) = 2
  /\ \E k \in 1..Len(rows_hist[1]) : ~DictHas(rows_hist[2], rows_hist[1][k][1])
  /\ \E k \in 1..Len(rows_hist[2]) : ~DictHas(rows_hist[1], rows_hist[2][k][1])


\* C16: self & other and self | other hand back an object that did not exist before
\* and leave every existing object, the two operands included, with the
\* serialization it had, also when an operand is already part of other trees.
C16_CombineKeepsOperands ==
  [][cond_call'.op \in {"and", "or"} =>
       /\ cond_call'.ret \notin 1..Len(conds)
       /\ \A k \in 1..Len(conds) : SqlAt(conds', k) = SqlAt(conds, k)]_vars

\* a combined node was combined again twice, with different operators
C16_Witness ==
  \E x, y, z \in 1..Len(conds) :
    /\ y # z
    /\ conds[x].sub_conditions # <<>>
    /\ conds[y].sub_conditions # <<>> /\ conds[y].sub_conditions[1] = x
    /\ conds[z].sub_conditions # <<>> /\ conds[z].sub_conditions[1] = x
    /\ conds[y].logical_operator # conds[z].logical_operator


\* the SQL word of the operator used in a & or | call
OpWord(op) == IF op = "and" THEN "AND" ELSE "OR"

\* C17: the node handed back by left & right or left | right serializes as
\* "(<left> OP <right>)"; when left is itself a combination a OP1 b, the text is
\* "((<a> OP1 <b>) OP2 <right>)", at every depth the objects reach.
C17_NodeText ==
  cond_call.op \in {"and", "or"} =>
    LET left == cond_call.self
        right == cond_call.other
        text == SqlAt(conds, cond_call.ret)
    IN /\ text = "(" \o SqlAt(conds, left) \o " " \o OpWord(cond_call.op) \o " "
                   \o SqlAt(conds, right) \o ")"
       /\ conds[left].sub_conditions # <<>> =>
            text = "((" \o SqlAt(conds, conds[left].sub_conditions[1])
                   \o " " \o conds[left].logical_operator[1] \o " "
                   \o SqlAt(conds, conds[left].sub_conditions[2])
                   \o ") " \o OpWord(cond_call.op) \o " " \o SqlAt(conds, right) \o ")"

\* a chain (a & b) | c was made: the left operand of the last call is a combination
C17_Witness ==
  /\ cond_call.op = "or"
  /\ conds[cond_call.self].sub_conditions # <<>>
  /\ conds[cond_call.self].logical_operator = Some("AND")
  /\ conds[cond_call.other].sub_conditions = <<>>


\* the single quotes of the text come in pairs that stand side by side
RECURSIVE QuotesPaired(_)
QuotesPaired(body) ==
  IF body = "" THEN TRUE
  ELSE IF Head(body) = "'"
  THEN Len(body) >= 2 /\ Head(Tail(body)) = "'" /\ QuotesPaired(Tail(Tail(body)))
  ELSE QuotesPaired(Tail(body))

\* the text with every pair of single quotes read as one
RECURSIVE Unescaped(_)
Unescaped(body) ==
  IF body = "" THEN ""
  ELSE IF Head(body) = "'" /\ Len(body) >= 2
  THEN "'" \o Unescaped(Tail(Tail(body)))
  ELSE Head(body) \o Unescaped(Tail(body))

\* the decimal text of a whole number
RECURSIVE Decimal(_)
Decimal(i) ==
  IF i < 0 THEN "-" \o Decimal(0 - i)
  ELSE IF i < 10 THEN SubSeq("0123456789", i + 1, i + 1)
  ELSE Decimal(i \div 10) \o Decimal(i % 10)

WarmedUp ==
  /\ Published
  /\ calls = 0
  /\ next_handle = config.min_connections + 1

\* C19: right after the construction of a pool with 0 <= min <= max whose factory
\* did not fail, available_count() and size() are min_connections and
\* in_use_count() is 0.
C19_WarmPool ==
  WarmedUp =>
    /\ available_count = config.min_connections
    /\ size = config.min_connections
    /\ in_use_count = 0

\* a pool constructed with min_connections = 2, both handles made
C19_Witness ==
  /\ WarmedUp
  /\ config.min_connections = 2
  /\ available = <<1, 2>>


\* C20: when release(h) of an in-use handle is made on a pool with nothing available
\* and total = max_connections, and the next call is an acquire, that acquire does
\* not take the failing path and hands back h.
C20_ReleasedHandleReused ==
  \A t \in Threads :
    reuse.by = t =>
      /\ pc[t] \in {"a_get", "a_append", "a_stats", "idle"}
      /\ pc[t] = "idle" => ret[t] = [op |-> "acquire", conn |-> reuse.h, snap |-> ConnectionStats]

\* the acquire that followed the release has returned, to a thread other than the
\* one that released
C20_Witness ==
  \E t \in Threads :
    /\ reuse.by = t
    /\ pc[t] = "idle"
    /\ ret[t].conn = reuse.h
    /\ reuse.h \in held[t]
    /\ misuse = FALSE
    /\ \E u \in Threads \ {t} : ret[u].op = "release"


\* the factory call made for thread t by its acquire has ended without a handle: it
\* raised (the except branch is next) or it handed back None
FailedOnDemand(t) ==
  /\ pc[t] \in {"c_lock", "a_after_create"}
  /\ conn[t] = None

\* C23: when the factory fails during the on-demand creation of an acquire, the
\* acquire returns to its caller, with an absent result.
C23_FactoryFailureReturnsNone ==
  \A t \in Threads :
    FailedOnDemand(t) ~> (pc[t] = "idle" /\ ret[t].op = "acquire" /\ ret[t].conn = None)

\* C24: once the constructor has returned, available_count() and size() are both
\* the number of warm-up factory calls that handed back a handle.
C24_WarmupCountsHandles ==
  (Published /\ calls = 0) =>
    /\ available_count = next_handle - 1
    /\ size = next_handle - 1

\* the callers that have the handle the owner gave back: taken from the queue, or
\* returned by their acquire
HandoffTakers ==
  {t \in Threads : \/ handoff.h \in held[t]
                   \/ conn[t] = handoff.h /\ pc[t] \in {"a_append", "a_stats"}}

\* what an acquire that timed out returns
TimedOut == [op |-> "acquire", conn |-> None, snap |-> ConnectionStats]

C26_FactoryRunsUnlocked ==
  \A t \in Threads : pc[t] = "c_factory" => lock # t

\* C29: a handle that a caller got from acquire and has not released since is not
\* in the available queue.
C29_HeldNotAvailable ==
  \A t \in Threads : \A h \in held[t] : ~InList(available, h)

\* C30: the factory is called for an acquire only while the available queue is
\* empty, and an acquire takes the failing path only while the queue is empty.
C30_CreatesOnlyWhenDrained ==
  \A t \in Threads : pc[t] \in {"c_factory", "a_fail"} => available = <<>>


\* C21: a release(h) of an object that is not in the in-use list when release tests
\* it returns to its caller, and no step of that call changes the available queue,
\* the in-use list, the total or any statistics field.
C21_NoopRelease ==
  [][\A t \in Threads :
       /\ (pc[t] = "idle" /\ pc'[t] = "r_lock") =>
            UNCHANGED <<available, in_use, total_connections, stats>>
       /\ (pc[t] = "r_lock" /\ pc'[t] # "r_lock" /\ ~InList(in_use, conn[t])) =>
            /\ pc'[t] = "idle"
            /\ ret'[t].op = "release"
            /\ UNCHANGED <<available, in_use, total_connections, stats>>]_vars

\* C21 witness: one handle has been acquired once, and both callers have returned
\* from a release: one of the two releases found nothing to give back.
C21_Witness ==
  \E t1 \in Threads : \E t2 \in Threads \ {t1} :
    /\ calls = 3
    /\ pc[t1] = "idle" /\ ret[t1].op = "release"
    /\ pc[t2] = "idle" /\ ret[t2].op = "release"
    /\ stats.successful_acquisitions = 1
    /\ in_use = <<>>
    /\ Len(available) = total_connections
    /\ total_connections >= 1

\* C22: the step with which an acquire returns a handle adds one to
\* successful_acquisitions and leaves failed_acquisitions; the step with which an
\* acquire returns None adds one to failed_acquisitions and leaves
\* successful_acquisitions; no other step of any call changes either counter (so
\* their sum is the number of acquire calls that have returned).
C22_CountersFollowReturns ==
  [][LET ds == stats'.successful_acquisitions - stats.successful_acquisitions
         df == stats'.failed_acquisitions - stats.failed_acquisitions
         returning == {t \in Threads : pc[t] \in AcquirePcs /\ pc'[t] = "idle"}
     IN  IF returning = {}
         THEN ds = 0 /\ df = 0
         ELSE \A t \in returning :
                /\ ret'[t].op = "acquire"
                /\ IF ret'[t].conn # None THEN ds = 1 /\ df = 0 ELSE ds = 0 /\ df = 1]_vars

\* C22 witness: of two acquire calls, one has returned a handle and the other has
\* returned None, and each counter stands at one.
C22_Witness ==
  \E t1 \in Threads : \E t2 \in Threads \ {t1} :
    /\ pc[t1] = "idle" /\ pc[t2] = "idle"
    /\ ret[t1].op = "acquire" /\ ret[t1].conn = None
    /\ held[t2] # {}
    /\ stats.successful_acquisitions = 1
    /\ stats.failed_acquisitions = 1
    /\ calls = 2

\* C27: no step lowers the total-connections count, neither the one size() returns
\* nor the one the statistics carry.
C27_TotalNeverDecreases ==
  [][/\ size' >= size
     /\ stats'.total_connections >= stats.total_connections]_vars

\* C27 witness: one connection was counted at construction, an acquire whose
\* on-demand creation failed has returned, and a get_stats has copied the total.
C27_Witness ==
  /\ total_connections = 1
  /\ config.max_connections = 2
  /\ stats.total_connections = 1
  /\ stats.failed_acquisitions >= 1
  /\ \E t \in Threads : pc[t] = "idle" /\ ret[t].op = "get_stats"


\* the three forms of a condition object
IsRawLeaf(c) ==
  /\ c.raw_condition # <<>>
  /\ c.field = <<>> /\ c.operator = <<>> /\ c.value = VNone
  /\ c.sub_conditions = <<>> /\ c.logical_operator = <<>>
IsComparisonLeaf(c) ==
  /\ c.field # <<>> /\ c.operator # <<>>
  /\ c.raw_condition = <<>>
  /\ c.sub_conditions = <<>> /\ c.logical_operator = <<>>
IsCombination(c) ==
  /\ Len(c.sub_conditions) = 2 /\ c.logical_operator # <<>>
  /\ c.raw_condition = <<>>
  /\ c.field = <<>> /\ c.operator = <<>> /\ c.value = VNone

\* C28: every condition object made by the constructor or by & and | is a raw
\* leaf, a comparison leaf or a two-child combination, with the fields of the other
\* forms unset.
C28_OneForm ==
  \A k \in 1..Len(conds) :
    IsRawLeaf(conds[k]) \/ IsComparisonLeaf(conds[k]) \/ IsCombination(conds[k])


\* C31: whenever the pool is constructed and no call is running, size() is the
\* number of handles in the available queue plus the number in the in-use list.
C31_SizeCountsHandles ==
  (Published /\ AllIdle) => size = Len(available) + Len(in_use)

\* list.count(h)
CountIn(list, h) == Cardinality({i \in 1..Len(list) : list[i] = h})

\* the acquire calls that carry h between the queue (or the factory) and the in-use
\* list
AcquireTransit(h) ==
  {t \in Threads : conn[t] = h /\ pc[t] \in {"c_lock", "a_after_create", "a_append"}}

\* the calls that carry h: the constructor before its put, an acquire before its
\* append, a release between its remove and its put
InTransit(h) ==
  {t \in AllThreads :
     conn[t] = h /\ pc[t] \in {"c_lock", "init_put", "a_after_create", "a_append", "r_put"}}

\* C32 as stated: on a constructed pool every created handle is once in the
\* available queue, or once in the in-use list, or carried by one acquire call.
C32_OnePlaceOrAcquire ==
  Published =>
    \A h \in 1..(next_handle - 1) :
      CountIn(available, h) + CountIn(in_use, h) + Cardinality(AcquireTransit(h)) = 1

\* C32 amended: every created handle is once in the available queue, or once in
\* the in-use list, or carried by one call (the constructor, an acquire, or a
\* release between its remove and its put), whatever releases are made.
C32_OnePlace ==
  \A h \in 1..(next_handle - 1) :
    CountIn(available, h) + CountIn(in_use, h) + Cardinality(InTransit(h)) = 1

\* C32 witness: after a release by a caller that did not hold the handle, two
\* callers hold it, and it is once in the in-use list and not in the queue.
C32_Witness ==
  /\ misuse
  /\ AllIdle
  /\ \E t1 \in Threads : \E t2 \in Threads \ {t1} : \E h \in held[t1] \cap held[t2] :
       CountIn(in_use, h) = 1 /\ CountIn(available, h) = 0


\* C33: every condition of the builder that was made from a raw text (where_raw(s),
\* QueryCondition(raw_condition=s)) serializes to exactly that text.
C33_RawVerbatim ==
  \A i \in 1..Len(qb.where_conditions) :
    LET condition == qb.where_conditions[i]
    IN  condition.raw_condition # <<>> => to_sql(condition) = condition.raw_condition[1]


\* the fields no entry method assigns
ClauseFields ==
  {"from_table", "where_conditions", "joins", "group_by_columns", "having_clause",
   "order_by_clauses", "limit_count", "offset_count", "set_data", "insert_rows"}

\* the step is a call of an entry method that changes something
EntryStep ==
  /\ qcalls' = qcalls + 1
  /\ last_entry' # <<>>
  /\ \/ last_entry' # last_entry
     \/ qb'.query_type # qb.query_type
     \/ qb'.select_columns # qb.select_columns
     \/ qb'.target_table # qb.target_table

\* build() was the last call and handed back text, after the statement kind was
\* changed by a later entry method
BuiltAfterSwitch ==
  result # <<>> /\ result[1].ok /\ first_entry # <<>> /\ first_entry # last_entry

\* the text shows every condition, assignment and row the builder was given
EmitsWhatWasAdded ==
  LET text == result[1].text IN
    /\ (last_entry \in {Some("SELECT"), Some("UPDATE"), Some("DELETE")} /\ where_hist # <<>>)
         => Contains(text, " WHERE " \o StrJoin(where_hist, " AND "))
    /\ last_entry = Some("UPDATE")
         => /\ Len(qb.set_data) >= 1
            /\ \A k \in 1..Len(qb.set_data) :
                 Contains(text, qb.set_data[k][1] \o " = " \o format_value(qb.set_data[k][2]))
    /\ last_entry = Some("INSERT")
         => /\ qb.insert_rows = rows_hist
            /\ \A r \in 1..Len(rows_hist) :
                 Contains(text, RowTuple(rows_hist[r], DictKeys(rows_hist[1])))

\* C34: a call of an entry method sets the kind tag to its own kind, select extends
\* the column list and leaves the target table, the three others set the target
\* table and leave the column list, and every other field of the builder is left as
\* it was; a text built after a later entry method changed the kind shows the
\* conditions, assignments and rows added before that call.
C34_EntryFrame ==
  /\ [](BuiltAfterSwitch => EmitsWhatWasAdded)
  /\ [][EntryStep =>
         /\ \A f \in ClauseFields : qb'[f] = qb[f]
         /\ qb'.query_type = last_entry'
         /\ IF last_entry' = Some("SELECT")
            THEN /\ qb'.target_table = qb.target_table
                 /\ Len(qb'.select_columns) >= Len(qb.select_columns)
                 /\ SubSeq(qb'.select_columns, 1, Len(qb.select_columns)) = qb.select_columns
            ELSE /\ qb'.select_columns = qb.select_columns
                 /\ qb'.target_table # <<>>]_vars

\* C34 witness: a DELETE built from a builder that was a SELECT when its condition
\* was added; the columns selected are still in the builder.
C34_Witness ==
  /\ BuiltAfterSwitch
  /\ first_entry = Some("SELECT")
  /\ last_entry = Some("DELETE")
  /\ where_hist # <<>>
  /\ qb.select_columns # <<>>
  /\ Len(qb.where_conditions) = Len(where_hist)


\* C35: a pool that create_connection_pool reported as created stays the entry of
\* its database type in the manager's registry, which is what get_connection_pool
\* gives back.
C35_RegisteredPoolKept ==
  \A e \in manager.registered : manager.connection_pools[e[1]] = e[2]

====
